---- MODULE Spec2Model ----
(***************************************************************************)
(* Domain ownership verification endpoint (api/domain-verification).       *)
(*                                                                         *)
(* The handler is an async function on the single-threaded JavaScript      *)
(* event loop.  A POST suspends at `await initializeChiaSDK()` and at      *)
(* `await verifyBLSSignature(...)`; everything between two awaits runs     *)
(* without interruption.  Each action below is one such uninterrupted      *)
(* segment.  GET and DELETE contain no await and are one action each.      *)
(*                                                                         *)
(* Once the SDK promise is settled every await of the handler resumes in   *)
(* the microtask queue, so the segments of all requests that are past the  *)
(* first await run inside one event-loop turn: they interleave with each   *)
(* other, but no timer fires in between.  The clock therefore advances     *)
(* only while every request in flight waits for the pending SDK import.    *)
(*                                                                         *)
(* The BLS library (chia-wallet-sdk-wasm) is outside the repository; it is *)
(* modelled symbolically: a signature value names its signer and the       *)
(* signed message, and a key derives to one fixed address.                 *)
(***************************************************************************)
EXTENDS Integers, Sequences, FiniteSets, TLC

VARIABLES
    now,                    \* Date.now()
    initializationPromise,  \* "null" | "pending" | "fulfilled" | "rejected"
    usedNonces,             \* Set<string>
    nonceTimestamps,        \* Map<string, number>
    verificationStorage,    \* Map<string, record>
    file,                   \* contents of .domain-verifications.json
    pc,                     \* per request slot: where the handler is suspended
    body,                   \* per request slot: req.body of a suspended POST
    last,                   \* the most recent response sent
    accepted,               \* history: nonces of 200 responses not yet swept
    sdkLoads,               \* history: imports of the SDK started by this process
    \* api/links/create and api/links/[username]
    linksStorage,           \* Map<string, UserLink[]> of api/links/create
    pageLinksStorage,       \* Map<string, UserLink[]> of api/links/[username]
    userAddresses,          \* Map<string, string> of api/links/create
    linkPc,                 \* per request slot: where the create handler is suspended
    linkBody,               \* per request slot: req.body of a suspended create
    linkLast,               \* the most recent response of the two link endpoints
    uuids,                  \* history: ids handed out by uuidv4() in this process
    \* the DomainOwnershipVerification component in one browser
    isVerified,             \* useState: isVerified
    localStorage,           \* the item domain-verified-<domain>: "true" | "null"
    checkPc,                \* where checkInitialStatus is suspended
    checkResponse,          \* the response its fetch resolves with
    clickPc,                \* where handleVerifyOwnership is suspended
    clickResponse,          \* the response its fetch resolves with
    challenge,              \* the body of the component's POST
    postSlot,               \* history: the slot serving the component's POST
    \* the network in front of api/domain-verification
    wire                    \* history: bodies of the POSTs answered 200, as sent

\* the state of api/domain-verification
vars == <<now, initializationPromise, usedNonces, nonceTimestamps,
          verificationStorage, file, pc, body, last, accepted, sdkLoads>>

\* the state of the link endpoints
linkVars == <<linksStorage, pageLinksStorage, userAddresses, linkPc, linkBody,
              linkLast, uuids>>

\* the state of the component
clientVars == <<isVerified, localStorage, checkPc, checkResponse, clickPc,
                clickResponse, challenge, postSlot>>

\* what an observer of the network has recorded
wireVars == <<wire>>

allVars == <<vars, linkVars, clientVars, wireVars>>

----------------------------------------------------------------------------
(* Bounds of the model *)

NumReqs == 2            \* request slots that may be in flight together
Epoch == 1000000        \* clock value at process start
MaxElapsed == 300001    \* the clock stops advancing this long after Epoch

Reqs == 1..NumReqs
TickSteps == {300000, 300001}

----------------------------------------------------------------------------
(* Program constants *)

NONCE_EXPIRY_TIME == 5 * 60 * 1000
maxAge == 2 * 60 * 1000
maxSkew == 30000
MaxDomainLen == 100
AddrBodyLen == 58
SigHexLen == 192
PubKeyHexLen == 96

----------------------------------------------------------------------------
(* Strings.  A domain is a sequence of characters. *)

ValidChars == {"a", "b", "-", "_"}

IsValidChar(c) == c \in ValidChars

LongDomain == [i \in 1..(MaxDomainLen + 1) |-> "a"]

DomainInputs == { <<"a">>, <<"b">>, <<"a", ".">>, <<".">>, <<>>, LongDomain }

\* domain.replace(/[^a-zA-Z0-9_-]/g, '')
StripInvalid(domain) == SelectSeq(domain, IsValidChar)

\* sanitizeDomainName without the length limit of lines 177-179
sanitizeDomainName_NoLengthCheck(domain) ==
    IF domain = <<>>
    THEN [valid |-> FALSE, sanitized |-> <<>>, error |-> "InvalidDomain"]
    ELSE LET sanitized == StripInvalid(domain) IN
         IF Len(sanitized) = 0
         THEN [valid |-> FALSE, sanitized |-> <<>>, error |-> "InvalidDomain"]
         ELSE IF \E i \in 1..Len(sanitized) : ~IsValidChar(sanitized[i])
         THEN [valid |-> FALSE, sanitized |-> <<>>, error |-> "InvalidDomain"]
         ELSE [valid |-> TRUE, sanitized |-> sanitized, error |-> "none"]

sanitizeDomainName(domain) ==
    IF domain = <<>>
    THEN [valid |-> FALSE, sanitized |-> <<>>, error |-> "InvalidDomain"]
    ELSE LET sanitized == StripInvalid(domain) IN
         IF Len(sanitized) = 0
         THEN [valid |-> FALSE, sanitized |-> <<>>, error |-> "InvalidDomain"]
         ELSE IF Len(sanitized) > MaxDomainLen
         THEN [valid |-> FALSE, sanitized |-> <<>>, error |-> "InvalidDomain"]
         ELSE IF \E i \in 1..Len(sanitized) : ~IsValidChar(sanitized[i])
         THEN [valid |-> FALSE, sanitized |-> <<>>, error |-> "InvalidDomain"]
         ELSE [valid |-> TRUE, sanitized |-> sanitized, error |-> "none"]

\* `Verify ownership of domain ${domain} at ${timestamp} with nonce ${nonce}`
createDomainOwnershipMessage(domain, timestamp, nonce) ==
    <<"Verify ownership of domain ", domain, " at ", timestamp,
      " with nonce ", nonce>>

EmptyMessage == <<>>

----------------------------------------------------------------------------
(* Addresses: human-readable prefix, number of characters after it, and    *)
(* whether these are all of [a-z0-9].                                      *)

Addr(id) == [hrp |-> "xch1", len |-> AddrBodyLen, lower |-> TRUE, id |-> id]
EmptyAddr == [hrp |-> "", len |-> 0, lower |-> TRUE, id |-> "none"]
UpperAddr == [hrp |-> "xch1", len |-> AddrBodyLen, lower |-> FALSE, id |-> "A1"]

\* /^xch1[a-z0-9]{58}$/
isValidChiaAddress(address) ==
    address.hrp = "xch1" /\ address.len = AddrBodyLen /\ address.lower

----------------------------------------------------------------------------
(* Hex strings carrying keys and signatures *)

Keys == {"K1", "K2"}

\* a 0x prefix, the number of characters after it, whether they are all hex
\* digits, and the value they encode
Hex(p0x, len, ishex, val) == [p0x |-> p0x, len |-> len, ishex |-> ishex, val |-> val]

NoSig == [signer |-> "none", msg |-> EmptyMessage]
SigOf(k, m) == [signer |-> k, msg |-> m]

\* .replace(/^0x/, '')
Clean(h) == [h EXCEPT !.p0x = FALSE]

\* /^[0-9a-fA-F]{192}$/ and /^[0-9a-fA-F]{96}$/ on the cleaned string
IsHexOfLen(h, n) == ~h.p0x /\ h.ishex /\ h.len = n

\* PublicKey.fromBytes: only encodings of curve points parse
IsCurvePoint(v) == v \in Keys

\* deriveSynthetic -> standardPuzzleHash -> new Address(.., 'xch').encode()
AddressOfKey(k) == IF k = "K1" THEN Addr("A1") ELSE Addr("A2")

\* blsPublicKey.verify(messageBytes, blsSignature)
BlsVerify(k, m, s) == s = SigOf(k, m)

\* deriveChiaAddressFromPublicKey; "throws" when the SDK rejects the bytes
deriveChiaAddressFromPublicKey(cleanPubKey) ==
    IF IsCurvePoint(cleanPubKey.val)
    THEN [threw |-> FALSE, address |-> AddressOfKey(cleanPubKey.val)]
    ELSE [threw |-> TRUE, address |-> EmptyAddr]

\* verification without the key-to-address binding of lines 78-86
verifyBLSSignature_NoBinding(message, signature, publicKey, expectedAddress) ==
    LET cleanSignature == Clean(signature)
        cleanPubKey == Clean(publicKey)
        derived == deriveChiaAddressFromPublicKey(cleanPubKey)
    IN  IF ~IsHexOfLen(cleanSignature, SigHexLen)
        THEN [valid |-> FALSE, error |-> "FormatError"]
        ELSE IF ~IsHexOfLen(cleanPubKey, PubKeyHexLen)
        THEN [valid |-> FALSE, error |-> "FormatError"]
        ELSE IF message = EmptyMessage
        THEN [valid |-> FALSE, error |-> "EmptyMessage"]
        ELSE IF derived.threw
        THEN [valid |-> FALSE, error |-> "VerificationFailed"]
        ELSE IF signature.val = NoSig
        THEN [valid |-> FALSE, error |-> "CryptoError"]
        ELSE IF ~BlsVerify(cleanPubKey.val, message, cleanSignature.val)
        THEN [valid |-> FALSE, error |-> "InvalidSignature"]
        ELSE [valid |-> TRUE, error |-> "none"]

\* verification that ignores the result of blsPublicKey.verify (line 109)
verifyBLSSignature_NoSigCheck(message, signature, publicKey, expectedAddress) ==
    LET cleanSignature == Clean(signature)
        cleanPubKey == Clean(publicKey)
        derived == deriveChiaAddressFromPublicKey(cleanPubKey)
    IN  IF ~IsHexOfLen(cleanSignature, SigHexLen)
        THEN [valid |-> FALSE, error |-> "FormatError"]
        ELSE IF ~IsHexOfLen(cleanPubKey, PubKeyHexLen)
        THEN [valid |-> FALSE, error |-> "FormatError"]
        ELSE IF message = EmptyMessage
        THEN [valid |-> FALSE, error |-> "EmptyMessage"]
        ELSE IF derived.threw
        THEN [valid |-> FALSE, error |-> "VerificationFailed"]
        ELSE IF derived.address # expectedAddress
        THEN [valid |-> FALSE, error |-> "KeySubstitution"]
        ELSE IF signature.val = NoSig
        THEN [valid |-> FALSE, error |-> "CryptoError"]
        ELSE [valid |-> TRUE, error |-> "none"]

\* verification without the format check of the public key of lines 68-71
verifyBLSSignature_NoKeyFormat(message, signature, publicKey, expectedAddress) ==
    LET cleanSignature == Clean(signature)
        cleanPubKey == Clean(publicKey)
        derived == deriveChiaAddressFromPublicKey(cleanPubKey)
    IN  IF ~IsHexOfLen(cleanSignature, SigHexLen)
        THEN [valid |-> FALSE, error |-> "FormatError"]
        ELSE IF message = EmptyMessage
        THEN [valid |-> FALSE, error |-> "EmptyMessage"]
        ELSE IF derived.threw
        THEN [valid |-> FALSE, error |-> "VerificationFailed"]
        ELSE IF derived.address # expectedAddress
        THEN [valid |-> FALSE, error |-> "KeySubstitution"]
        ELSE IF signature.val = NoSig
        THEN [valid |-> FALSE, error |-> "CryptoError"]
        ELSE IF ~BlsVerify(cleanPubKey.val, message, cleanSignature.val)
        THEN [valid |-> FALSE, error |-> "InvalidSignature"]
        ELSE [valid |-> TRUE, error |-> "none"]

verifyBLSSignature(message, signature, publicKey, expectedAddress) ==
    LET cleanSignature == Clean(signature)
        cleanPubKey == Clean(publicKey)
        derived == deriveChiaAddressFromPublicKey(cleanPubKey)
    IN  IF ~IsHexOfLen(cleanSignature, SigHexLen)
        THEN [valid |-> FALSE, error |-> "FormatError"]
        ELSE IF ~IsHexOfLen(cleanPubKey, PubKeyHexLen)
        THEN [valid |-> FALSE, error |-> "FormatError"]
        ELSE IF message = EmptyMessage
        THEN [valid |-> FALSE, error |-> "EmptyMessage"]
        ELSE IF derived.threw
        THEN [valid |-> FALSE, error |-> "VerificationFailed"]
        ELSE IF derived.address # expectedAddress
        THEN [valid |-> FALSE, error |-> "KeySubstitution"]
        ELSE IF signature.val = NoSig
        THEN [valid |-> FALSE, error |-> "CryptoError"]
        ELSE IF ~BlsVerify(cleanPubKey.val, message, cleanSignature.val)
        THEN [valid |-> FALSE, error |-> "InvalidSignature"]
        ELSE [valid |-> TRUE, error |-> "none"]

----------------------------------------------------------------------------
(* Request bodies.  A shape says, field by field, how the client filled    *)
(* the body; MkBody turns it into the body sent at clock value t.          *)

OtherKey(k) == IF k = "K1" THEN "K2" ELSE "K1"

OffsetOf(ts) ==
    CASE ts = "fresh"  -> 0
      [] ts = "oldest" -> maxAge
      [] ts = "stale"  -> maxAge + 1
      [] ts = "newest" -> 0 - maxSkew
      [] ts = "future" -> 0 - maxSkew - 1

AddrOfShape(kind, k) ==
    CASE kind = "own"   -> AddressOfKey(k)
      [] kind = "other" -> AddressOfKey(OtherKey(k))
      [] kind = "upper" -> UpperAddr
      [] kind = "empty" -> EmptyAddr

MkBody(s, t) ==
    LET timestamp == IF s.ts = "zero" THEN 0 ELSE t - OffsetOf(s.ts)
        sanitized == sanitizeDomainName(s.dom).sanitized
        message ==
            CASE s.msg = "ok"         -> createDomainOwnershipMessage(sanitized, timestamp, s.nonce)
              [] s.msg = "raw"        -> createDomainOwnershipMessage(s.dom, timestamp, s.nonce)
              [] s.msg = "otherNonce" -> createDomainOwnershipMessage(sanitized, timestamp, "nx")
              [] s.msg = "empty"      -> EmptyMessage
        publicKey ==
            CASE s.pk = "own"      -> Hex(FALSE, PubKeyHexLen, TRUE, s.key)
              [] s.pk = "own0x"    -> Hex(TRUE, PubKeyHexLen, TRUE, s.key)
              [] s.pk = "other"    -> Hex(FALSE, PubKeyHexLen, TRUE, OtherKey(s.key))
              [] s.pk = "short"    -> Hex(FALSE, PubKeyHexLen - 1, TRUE, s.key)
              [] s.pk = "nonhex"   -> Hex(FALSE, PubKeyHexLen, FALSE, s.key)
              [] s.pk = "offcurve" -> Hex(FALSE, PubKeyHexLen, TRUE, "X")
              [] s.pk = "empty"    -> Hex(FALSE, 0, TRUE, "none")
        signature ==
            CASE s.sig = "own"      -> Hex(FALSE, SigHexLen, TRUE, SigOf(s.key, message))
              [] s.sig = "own0x"    -> Hex(TRUE, SigHexLen, TRUE, SigOf(s.key, message))
              [] s.sig = "otherKey" -> Hex(FALSE, SigHexLen, TRUE, SigOf(OtherKey(s.key), message))
              [] s.sig = "otherMsg" -> Hex(FALSE, SigHexLen, TRUE,
                                           SigOf(s.key, createDomainOwnershipMessage(sanitized, timestamp, "nx")))
              [] s.sig = "short"    -> Hex(FALSE, SigHexLen - 1, TRUE, SigOf(s.key, message))
              [] s.sig = "garbage"  -> Hex(FALSE, SigHexLen, TRUE, NoSig)
              [] s.sig = "empty"    -> Hex(FALSE, 0, TRUE, NoSig)
    IN  [domain          |-> s.dom,
         expectedAddress |-> AddrOfShape(s.ea, s.key),
         message         |-> message,
         signature       |-> signature,
         publicKey       |-> publicKey,
         timestamp       |-> timestamp,
         signingAddress  |-> AddrOfShape(s.sa, s.key),
         nonce           |-> s.nonce]

NoBody == MkBody([dom |-> <<>>, key |-> "K1", ea |-> "empty", sa |-> "empty",
                  ts |-> "zero", msg |-> "empty", nonce |-> "", pk |-> "empty",
                  sig |-> "empty"], 0)

\* JavaScript falsiness of the fields of the body
FalsyHex(h) == ~h.p0x /\ h.len = 0
FalsyAddr(a) == a.hrp = "" /\ a.len = 0

MissingFields(b) ==
    \/ b.domain = <<>>
    \/ FalsyAddr(b.expectedAddress)
    \/ b.message = EmptyMessage
    \/ FalsyHex(b.signature)
    \/ FalsyHex(b.publicKey)
    \/ b.timestamp = 0
    \/ FalsyAddr(b.signingAddress)
    \/ b.nonce = ""

----------------------------------------------------------------------------
(* Nonce registry *)

EmptyMap == [n \in {} |-> 0]

MapSet(m, k, v) == [x \in (DOMAIN m) \cup {k} |-> IF x = k THEN v ELSE m[x]]
MapDelete(m, k) == [x \in (DOMAIN m) \ {k} |-> m[x]]

\* the nonces cleanupExpiredNonces removes at clock value t
Expired(ts, t) == { n \in DOMAIN ts : t - ts[n] > NONCE_EXPIRY_TIME }

\* the sweep with >= in place of > in the comparison of line 257
cleanupExpiredNonces_Inclusive(used, ts, t) ==
    [used |-> { n \in used : ~(n \in DOMAIN ts /\ t - ts[n] >= NONCE_EXPIRY_TIME) },
     ts   |-> [n \in { m \in DOMAIN ts : t - ts[m] < NONCE_EXPIRY_TIME } |-> ts[n]]]

\* the sweep without usedNonces.delete(nonce) of line 258
cleanupExpiredNonces_TimestampsOnly(used, ts, t) ==
    [used |-> used,
     ts   |-> [n \in (DOMAIN ts) \ Expired(ts, t) |-> ts[n]]]

\* cleanupExpiredNonces: the registry after the sweep at clock value t
cleanupExpiredNonces(used, ts, t) ==
    [used |-> used \ Expired(ts, t),
     ts   |-> [n \in (DOMAIN ts) \ Expired(ts, t) |-> ts[n]]]

\* a replay check that never finds the nonce
NonceUsed_Never(used, nonce) == FALSE

\* usedNonces.has(nonce)
NonceUsed(used, nonce) == nonce \in used

----------------------------------------------------------------------------
(* The gates of POST between the two awaits (lines 282-337): the error of  *)
(* the first gate that rejects the body, or "none".                        *)

\* the age comparison with >= in place of >
TooOld_Inclusive(timeDiff) == timeDiff >= maxAge

TooOld(timeDiff) == timeDiff > maxAge
InFuture(timeDiff) == timeDiff < 0 - maxSkew

\* the gates with the address format checked before the replay check
Gates_AddressFirst(b, used, t) ==
    LET domainValidation == sanitizeDomainName(b.domain)
        timeDiff == t - b.timestamp
    IN  IF MissingFields(b) THEN "MissingFields"
        ELSE IF ~domainValidation.valid THEN "InvalidDomain"
        ELSE IF ~isValidChiaAddress(b.expectedAddress) THEN "InvalidAddressFormat"
        ELSE IF ~isValidChiaAddress(b.signingAddress) THEN "InvalidAddressFormat"
        ELSE IF NonceUsed(used, b.nonce) THEN "ReplayDetected"
        ELSE IF b.signingAddress # b.expectedAddress THEN "AddressMismatch"
        ELSE IF TooOld(timeDiff) THEN "StaleOrFutureTimestamp"
        ELSE IF InFuture(timeDiff) THEN "StaleOrFutureTimestamp"
        ELSE IF b.message # createDomainOwnershipMessage(domainValidation.sanitized,
                                                         b.timestamp, b.nonce)
             THEN "MessageMismatch"
        ELSE "none"

\* Gates without the comparison of the message of lines 333-337
Gates_NoMessageCheck(b, used, t) ==
    LET domainValidation == sanitizeDomainName(b.domain)
        timeDiff == t - b.timestamp
    IN  IF MissingFields(b) THEN "MissingFields"
        ELSE IF ~domainValidation.valid THEN "InvalidDomain"
        ELSE IF NonceUsed(used, b.nonce) THEN "ReplayDetected"
        ELSE IF ~isValidChiaAddress(b.expectedAddress) THEN "InvalidAddressFormat"
        ELSE IF ~isValidChiaAddress(b.signingAddress) THEN "InvalidAddressFormat"
        ELSE IF b.signingAddress # b.expectedAddress THEN "AddressMismatch"
        ELSE IF TooOld(timeDiff) THEN "StaleOrFutureTimestamp"
        ELSE IF InFuture(timeDiff) THEN "StaleOrFutureTimestamp"
        ELSE "none"

Gates(b, used, t) ==
    LET domainValidation == sanitizeDomainName(b.domain)
        timeDiff == t - b.timestamp
    IN  IF MissingFields(b) THEN "MissingFields"
        ELSE IF ~domainValidation.valid THEN "InvalidDomain"
        ELSE IF NonceUsed(used, b.nonce) THEN "ReplayDetected"
        ELSE IF ~isValidChiaAddress(b.expectedAddress) THEN "InvalidAddressFormat"
        ELSE IF ~isValidChiaAddress(b.signingAddress) THEN "InvalidAddressFormat"
        ELSE IF b.signingAddress # b.expectedAddress THEN "AddressMismatch"
        ELSE IF TooOld(timeDiff) THEN "StaleOrFutureTimestamp"
        ELSE IF InFuture(timeDiff) THEN "StaleOrFutureTimestamp"
        ELSE IF b.message # createDomainOwnershipMessage(domainValidation.sanitized,
                                                         b.timestamp, b.nonce)
             THEN "MessageMismatch"
        ELSE "none"

----------------------------------------------------------------------------
(* Verification store and its file *)

\* JSON.stringify(Object.fromEntries(verificationStorage.entries())): the
\* members of one JSON object, a key and the record under it
Serialize(store) == { <<d, store[d]>> : d \in DOMAIN store }

\* lines 215-227: JSON.parse of the file, every member set into the empty Map
LoadVerifications(contents) ==
    [d \in { e[1] : e \in contents } |-> (CHOOSE e \in contents : e[1] = d)[2]]

\* saveVerifications that adds the members to the file instead of rewriting it
saveVerifications_Append(store, old, written) ==
    IF written THEN old \cup Serialize(store) ELSE old

\* fs.writeFileSync inside try/catch: on failure the file keeps its contents
saveVerifications(store, old, written) == IF written THEN Serialize(store) ELSE old

\* a record written without the verified flag
verificationRecord_Unverified(b, sanitizedDomain, t) ==
    [domain     |-> sanitizedDomain,
     address    |-> b.expectedAddress,
     verified   |-> FALSE,
     verifiedAt |-> t,
     signature  |-> b.signature,
     publicKey  |-> b.publicKey,
     message    |-> b.message,
     nonce      |-> b.nonce]

verificationRecord(b, sanitizedDomain, t) ==
    [domain     |-> sanitizedDomain,
     address    |-> b.expectedAddress,
     verified   |-> TRUE,
     verifiedAt |-> t,
     signature  |-> b.signature,
     publicKey  |-> b.publicKey,
     message    |-> b.message,
     nonce      |-> b.nonce]

NoData == [domain |-> <<>>, address |-> EmptyAddr, verified |-> FALSE, verifiedAt |-> 0]

Response(op, status, error, nonce, data) ==
    [op |-> op, status |-> status, error |-> error, nonce |-> nonce, data |-> data]

\* the gates behind the replay check
LateGates == {"InvalidAddressFormat", "AddressMismatch", "StaleOrFutureTimestamp",
              "MessageMismatch", "FormatError", "EmptyMessage", "VerificationFailed",
              "KeySubstitution", "CryptoError", "InvalidSignature"}

----------------------------------------------------------------------------
\* initializeChiaSDK up to its return: the promise the caller awaits and the
\* number of imports started so far.  A caller that finds no promise creates
\* it and starts the import.
initializeChiaSDK_CacheResultOnly(promise, loads) ==
    IF promise = "fulfilled"
    THEN [promise |-> promise, loads |-> loads]
    ELSE [promise |-> "pending", loads |-> loads + 1]

\* initializeChiaSDK that forgets a rejected promise and imports again
initializeChiaSDK_RetryAfterFailure(promise, loads) ==
    IF promise \in {"pending", "fulfilled"}
    THEN [promise |-> promise, loads |-> loads]
    ELSE [promise |-> "pending", loads |-> loads + 1]

initializeChiaSDK(promise, loads) ==
    IF promise # "null"
    THEN [promise |-> promise, loads |-> loads]
    ELSE [promise |-> "pending", loads |-> loads + 1]

Init ==
    /\ now = Epoch
    /\ initializationPromise = "null"
    /\ usedNonces = {}
    /\ nonceTimestamps = EmptyMap
    /\ verificationStorage = EmptyMap
    /\ file = Serialize(EmptyMap)
    /\ pc = [r \in Reqs |-> "idle"]
    /\ body = [r \in Reqs |-> NoBody]
    /\ last = Response("none", 0, "none", "", NoData)
    /\ accepted = {}
    /\ sdkLoads = 0

\* Date.now() moves on between event-loop turns: every request in flight
\* is waiting for the import, none is in the microtask queue.
Tick ==
    /\ \A r \in DOMAIN pc : \/ pc[r] = "idle"
                            \/ pc[r] = "init" /\ initializationPromise = "pending"
    /\ \E d \in TickSteps :
         /\ now + d <= Epoch + MaxElapsed
         /\ now' = now + d
    /\ UNCHANGED <<initializationPromise, sdkLoads, usedNonces, nonceTimestamps,
                   verificationStorage, file, pc, body, last, accepted>>

\* POST arrives: the handler calls initializeChiaSDK() and suspends on it.
\* The first caller creates the promise and starts the import.  Slots are
\* interchangeable; a request takes the lowest free one.
PostStart(r) ==
    /\ pc[r] = "idle"
    /\ \A q \in DOMAIN pc : q < r => pc[q] # "idle"
    /\ initializationPromise' = initializeChiaSDK(initializationPromise, sdkLoads).promise
    /\ sdkLoads' = initializeChiaSDK(initializationPromise, sdkLoads).loads
    /\ pc' = [pc EXCEPT ![r] = "init"]
    /\ UNCHANGED <<now, usedNonces, nonceTimestamps, verificationStorage, file,
                   body, last, accepted>>

\* import('chia-wallet-sdk-wasm') wins the race
SdkLoaded ==
    /\ initializationPromise = "pending"
    /\ initializationPromise' = "fulfilled"
    /\ UNCHANGED <<sdkLoads, now, usedNonces, nonceTimestamps, verificationStorage, file,
                   pc, body, last, accepted>>

\* the import fails or the 10 s timeout wins the race
SdkFailed ==
    /\ initializationPromise = "pending"
    /\ initializationPromise' = "rejected"
    /\ UNCHANGED <<sdkLoads, now, usedNonces, nonceTimestamps, verificationStorage, file,
                   pc, body, last, accepted>>

\* PostUnavailable without the try/catch of lines 267-275: the rejection is
\* caught by the handler's outer catch and answered 500
PostUnavailable_OuterCatch(r) ==
    /\ pc[r] = "init"
    /\ initializationPromise = "rejected"
    /\ pc' = [pc EXCEPT ![r] = "idle"]
    /\ last' = Response("POST", 500, "InternalError", "", NoData)
    /\ UNCHANGED <<now, initializationPromise, sdkLoads, usedNonces, nonceTimestamps,
                   verificationStorage, file, body, accepted>>

\* catch of `await initializeChiaSDK()`: 503
PostUnavailable(r) ==
    /\ pc[r] = "init"
    /\ initializationPromise = "rejected"
    /\ pc' = [pc EXCEPT ![r] = "idle"]
    /\ last' = Response("POST", 503, "CryptoUnavailable", "", NoData)
    /\ UNCHANGED <<now, initializationPromise, sdkLoads, usedNonces, nonceTimestamps,
                   verificationStorage, file, body, accepted>>

\* PostGates with the insertion of the nonce left to the code after the await
PostGates_InsertAfterAwait(r, b) ==
    LET swept == cleanupExpiredNonces(usedNonces, nonceTimestamps, now)
        gate  == Gates(b, swept.used, now)
    IN  /\ pc[r] = "init"
        /\ initializationPromise = "fulfilled"
        /\ usedNonces' = swept.used
        /\ nonceTimestamps' = swept.ts
        /\ IF gate # "none"
           THEN /\ pc' = [pc EXCEPT ![r] = "idle"]
                /\ last' = Response("POST", 400, gate, b.nonce, NoData)
                /\ UNCHANGED <<body, initializationPromise, sdkLoads>>
           ELSE /\ pc' = [pc EXCEPT ![r] = "verify"]
                /\ body' = [body EXCEPT ![r] = b]
                /\ UNCHANGED last
                /\ initializationPromise' =
                      initializeChiaSDK(initializationPromise, sdkLoads).promise
                /\ sdkLoads' = initializeChiaSDK(initializationPromise, sdkLoads).loads
        /\ accepted' = accepted \ Expired(nonceTimestamps, now)
        /\ UNCHANGED <<now, verificationStorage, file>>

\* PostGates with the nonce consumed at the replay check and kept when a
\* later gate of the same segment rejects
PostGates_ConsumeAtCheck(r, b) ==
    LET swept == cleanupExpiredNonces(usedNonces, nonceTimestamps, now)
        gate  == Gates(b, swept.used, now)
    IN  /\ pc[r] = "init"
        /\ initializationPromise = "fulfilled"
        /\ IF gate \in {"MissingFields", "InvalidDomain", "ReplayDetected"}
           THEN /\ usedNonces' = swept.used
                /\ nonceTimestamps' = swept.ts
                /\ pc' = [pc EXCEPT ![r] = "idle"]
                /\ last' = Response("POST", 400, gate, b.nonce, NoData)
                /\ UNCHANGED <<body, initializationPromise, sdkLoads>>
           ELSE IF gate # "none"
           THEN /\ usedNonces' = swept.used \cup {b.nonce}
                /\ nonceTimestamps' = MapSet(swept.ts, b.nonce, now)
                /\ pc' = [pc EXCEPT ![r] = "idle"]
                /\ last' = Response("POST", 400, gate, b.nonce, NoData)
                /\ UNCHANGED <<body, initializationPromise, sdkLoads>>
           ELSE /\ usedNonces' = swept.used \cup {b.nonce}
                /\ nonceTimestamps' = MapSet(swept.ts, b.nonce, now)
                /\ pc' = [pc EXCEPT ![r] = "verify"]
                /\ body' = [body EXCEPT ![r] = b]
                /\ UNCHANGED last
                /\ initializationPromise' =
                      initializeChiaSDK(initializationPromise, sdkLoads).promise
                /\ sdkLoads' = initializeChiaSDK(initializationPromise, sdkLoads).loads
        /\ accepted' = accepted \ Expired(nonceTimestamps, now)
        /\ UNCHANGED <<now, verificationStorage, file>>

\* PostGates of a handler that goes on without waiting for the SDK
PostGates_NoSdkCheck(r, b) ==
    LET swept == cleanupExpiredNonces(usedNonces, nonceTimestamps, now)
        gate  == Gates(b, swept.used, now)
    IN  /\ pc[r] = "init"
        /\ initializationPromise # "null"
        /\ IF gate # "none"
           THEN /\ usedNonces' = swept.used
                /\ nonceTimestamps' = swept.ts
                /\ pc' = [pc EXCEPT ![r] = "idle"]
                /\ last' = Response("POST", 400, gate, b.nonce, NoData)
                /\ UNCHANGED <<body, initializationPromise, sdkLoads>>
           ELSE /\ usedNonces' = swept.used \cup {b.nonce}
                /\ nonceTimestamps' = MapSet(swept.ts, b.nonce, now)
                /\ pc' = [pc EXCEPT ![r] = "verify"]
                /\ body' = [body EXCEPT ![r] = b]
                /\ UNCHANGED last
                /\ initializationPromise' =
                      initializeChiaSDK(initializationPromise, sdkLoads).promise
                /\ sdkLoads' = initializeChiaSDK(initializationPromise, sdkLoads).loads
        /\ accepted' = accepted \ Expired(nonceTimestamps, now)
        /\ UNCHANGED <<now, verificationStorage, file>>

\* Lines 278-344: sweep, read the body, run the gates, mark the nonce as
\* used and call verifyBLSSignature, which calls initializeChiaSDK (line 57)
\* and suspends the handler.
PostGates(r, b) ==
    LET swept == cleanupExpiredNonces(usedNonces, nonceTimestamps, now)
        gate  == Gates(b, swept.used, now)
    IN  /\ pc[r] = "init"
        /\ initializationPromise = "fulfilled"
        /\ IF gate # "none"
           THEN /\ usedNonces' = swept.used
                /\ nonceTimestamps' = swept.ts
                /\ pc' = [pc EXCEPT ![r] = "idle"]
                /\ last' = Response("POST", 400, gate, b.nonce, NoData)
                /\ UNCHANGED <<body, initializationPromise, sdkLoads>>
           ELSE /\ usedNonces' = swept.used \cup {b.nonce}
                /\ nonceTimestamps' = MapSet(swept.ts, b.nonce, now)
                /\ pc' = [pc EXCEPT ![r] = "verify"]
                /\ body' = [body EXCEPT ![r] = b]
                /\ UNCHANGED last
                /\ initializationPromise' =
                      initializeChiaSDK(initializationPromise, sdkLoads).promise
                /\ sdkLoads' = initializeChiaSDK(initializationPromise, sdkLoads).loads
        /\ accepted' = accepted \ Expired(nonceTimestamps, now)
        /\ UNCHANGED <<now, verificationStorage, file>>

\* PostVerify without the rollback of lines 352-354
PostVerify_NoRollback(r, written) ==
    LET b == body[r]
        signatureVerification ==
            verifyBLSSignature(b.message, b.signature, b.publicKey, b.expectedAddress)
        sanitizedDomain == sanitizeDomainName(b.domain).sanitized
    IN  /\ pc[r] = "verify"
        /\ IF ~signatureVerification.valid
           THEN /\ last' = Response("POST", 400, signatureVerification.error, b.nonce, NoData)
                /\ UNCHANGED <<usedNonces, nonceTimestamps, verificationStorage, file, accepted>>
           ELSE /\ verificationStorage' =
                      MapSet(verificationStorage, sanitizedDomain,
                             verificationRecord(b, sanitizedDomain, now))
                /\ file' = saveVerifications(verificationStorage', file, written)
                /\ last' = Response("POST", 200, "none", b.nonce,
                                    [domain |-> b.domain, address |-> b.expectedAddress,
                                     verified |-> TRUE, verifiedAt |-> now])
                /\ accepted' = accepted \cup {b.nonce}
                /\ UNCHANGED <<usedNonces, nonceTimestamps>>
        /\ pc' = [pc EXCEPT ![r] = "idle"]
        /\ body' = [body EXCEPT ![r] = NoBody]
        /\ initializationPromise' = initializeChiaSDK(initializationPromise, sdkLoads).promise
        /\ sdkLoads' = initializeChiaSDK(initializationPromise, sdkLoads).loads
        /\ UNCHANGED now

\* PostVerify with a failed write of the file answered 500, the record and
\* the nonce kept
PostVerify_SurfaceWriteFailure(r, written) ==
    LET b == body[r]
        signatureVerification ==
            verifyBLSSignature(b.message, b.signature, b.publicKey, b.expectedAddress)
        sanitizedDomain == sanitizeDomainName(b.domain).sanitized
    IN  /\ pc[r] = "verify"
        /\ IF ~signatureVerification.valid
           THEN /\ usedNonces' = usedNonces \ {b.nonce}
                /\ nonceTimestamps' = MapDelete(nonceTimestamps, b.nonce)
                /\ last' = Response("POST", 400, signatureVerification.error, b.nonce, NoData)
                /\ UNCHANGED <<verificationStorage, file, accepted>>
           ELSE /\ verificationStorage' =
                      MapSet(verificationStorage, sanitizedDomain,
                             verificationRecord(b, sanitizedDomain, now))
                /\ file' = saveVerifications(verificationStorage', file, written)
                /\ last' = IF written
                           THEN Response("POST", 200, "none", b.nonce,
                                         [domain |-> b.domain,
                                          address |-> b.expectedAddress,
                                          verified |-> TRUE, verifiedAt |-> now])
                           ELSE Response("POST", 500, "StorageFailure", b.nonce, NoData)
                /\ accepted' = accepted \cup {b.nonce}
                /\ UNCHANGED <<usedNonces, nonceTimestamps>>
        /\ pc' = [pc EXCEPT ![r] = "idle"]
        /\ body' = [body EXCEPT ![r] = NoBody]
        /\ initializationPromise' = initializeChiaSDK(initializationPromise, sdkLoads).promise
        /\ sdkLoads' = initializeChiaSDK(initializationPromise, sdkLoads).loads
        /\ UNCHANGED now

\* PostVerify that updates the record already stored for the domain instead
\* of replacing it
PostVerify_MergeRecord(r, written) ==
    LET b == body[r]
        signatureVerification ==
            verifyBLSSignature(b.message, b.signature, b.publicKey, b.expectedAddress)
        sanitizedDomain == sanitizeDomainName(b.domain).sanitized
    IN  /\ pc[r] = "verify"
        /\ IF ~signatureVerification.valid
           THEN /\ usedNonces' = usedNonces \ {b.nonce}
                /\ nonceTimestamps' = MapDelete(nonceTimestamps, b.nonce)
                /\ last' = Response("POST", 400, signatureVerification.error, b.nonce, NoData)
                /\ UNCHANGED <<verificationStorage, file, accepted>>
           ELSE /\ verificationStorage' =
                      MapSet(verificationStorage, sanitizedDomain,
                             IF sanitizedDomain \in DOMAIN verificationStorage
                             THEN [verificationStorage[sanitizedDomain] EXCEPT
                                     !.verifiedAt = now, !.nonce = b.nonce]
                             ELSE verificationRecord(b, sanitizedDomain, now))
                /\ file' = saveVerifications(verificationStorage', file, written)
                /\ last' = Response("POST", 200, "none", b.nonce,
                                    [domain |-> b.domain, address |-> b.expectedAddress,
                                     verified |-> TRUE, verifiedAt |-> now])
                /\ accepted' = accepted \cup {b.nonce}
                /\ UNCHANGED <<usedNonces, nonceTimestamps>>
        /\ pc' = [pc EXCEPT ![r] = "idle"]
        /\ body' = [body EXCEPT ![r] = NoBody]
        /\ initializationPromise' = initializeChiaSDK(initializationPromise, sdkLoads).promise
        /\ sdkLoads' = initializeChiaSDK(initializationPromise, sdkLoads).loads
        /\ UNCHANGED now

\* Lines 344-381: verifyBLSSignature resumes (its call of
\* deriveChiaAddressFromPublicKey calls initializeChiaSDK again) and answers;
\* roll the nonce back and reject, or store the record, save the file and
\* answer 200.
PostVerify(r, written) ==
    LET b == body[r]
        signatureVerification ==
            verifyBLSSignature(b.message, b.signature, b.publicKey, b.expectedAddress)
        sanitizedDomain == sanitizeDomainName(b.domain).sanitized
    IN  /\ pc[r] = "verify"
        /\ IF ~signatureVerification.valid
           THEN /\ usedNonces' = usedNonces \ {b.nonce}
                /\ nonceTimestamps' = MapDelete(nonceTimestamps, b.nonce)
                /\ last' = Response("POST", 400, signatureVerification.error, b.nonce, NoData)
                /\ UNCHANGED <<verificationStorage, file, accepted>>
           ELSE /\ verificationStorage' =
                      MapSet(verificationStorage, sanitizedDomain,
                             verificationRecord(b, sanitizedDomain, now))
                /\ file' = saveVerifications(verificationStorage', file, written)
                /\ last' = Response("POST", 200, "none", b.nonce,
                                    [domain |-> b.domain, address |-> b.expectedAddress,
                                     verified |-> TRUE, verifiedAt |-> now])
                /\ accepted' = accepted \cup {b.nonce}
                /\ UNCHANGED <<usedNonces, nonceTimestamps>>
        /\ pc' = [pc EXCEPT ![r] = "idle"]
        /\ body' = [body EXCEPT ![r] = NoBody]
        /\ initializationPromise' = initializeChiaSDK(initializationPromise, sdkLoads).promise
        /\ sdkLoads' = initializeChiaSDK(initializationPromise, sdkLoads).loads
        /\ UNCHANGED now

\* Get with the lookup under the sanitized domain, as POST and DELETE do
Get_SanitizedLookup(domain) ==
    LET key == sanitizeDomainName(domain).sanitized IN
    /\ last' = IF domain = <<>>
               THEN Response("GET", 400, "DomainRequired", "", NoData)
               ELSE IF key \in DOMAIN verificationStorage
               THEN LET verification == verificationStorage[key] IN
                    Response("GET", 200, "none", "",
                             [domain |-> verification.domain,
                              address |-> verification.address,
                              verified |-> verification.verified,
                              verifiedAt |-> verification.verifiedAt])
               ELSE Response("GET", 404, "NotFound", "", NoData)
    /\ UNCHANGED <<now, initializationPromise, sdkLoads, usedNonces, nonceTimestamps,
                   verificationStorage, file, pc, body, accepted>>

\* GET ?domain=: lookup under the raw query string
Get(domain) ==
    /\ last' = IF domain = <<>>
               THEN Response("GET", 400, "DomainRequired", "", NoData)
               ELSE IF domain \in DOMAIN verificationStorage
               THEN LET verification == verificationStorage[domain] IN
                    Response("GET", 200, "none", "",
                             [domain |-> verification.domain,
                              address |-> verification.address,
                              verified |-> verification.verified,
                              verifiedAt |-> verification.verifiedAt])
               ELSE Response("GET", 404, "NotFound", "", NoData)
    /\ UNCHANGED <<now, initializationPromise, sdkLoads, usedNonces, nonceTimestamps,
                   verificationStorage, file, pc, body, accepted>>

\* Delete without the existence check of lines 456-463
Delete_NoExistenceCheck(domain, written) ==
    LET domainValidation == sanitizeDomainName(domain)
        sanitizedDomain == domainValidation.sanitized
    IN  /\ IF domain = <<>>
           THEN /\ last' = Response("DELETE", 400, "DomainRequired", "", NoData)
                /\ UNCHANGED <<verificationStorage, file>>
           ELSE IF ~domainValidation.valid
           THEN /\ last' = Response("DELETE", 400, domainValidation.error, "", NoData)
                /\ UNCHANGED <<verificationStorage, file>>
           ELSE /\ verificationStorage' = MapDelete(verificationStorage, sanitizedDomain)
                /\ file' = saveVerifications(verificationStorage', file, written)
                /\ last' = Response("DELETE", 200, "none", "", NoData)
        /\ UNCHANGED <<now, initializationPromise, sdkLoads, usedNonces, nonceTimestamps,
                       pc, body, accepted>>

\* DELETE ?domain=: remove the record of the sanitized domain and save
Delete(domain, written) ==
    LET domainValidation == sanitizeDomainName(domain)
        sanitizedDomain == domainValidation.sanitized
    IN  /\ IF domain = <<>>
           THEN /\ last' = Response("DELETE", 400, "DomainRequired", "", NoData)
                /\ UNCHANGED <<verificationStorage, file>>
           ELSE IF ~domainValidation.valid
           THEN /\ last' = Response("DELETE", 400, domainValidation.error, "", NoData)
                /\ UNCHANGED <<verificationStorage, file>>
           ELSE IF sanitizedDomain \notin DOMAIN verificationStorage
           THEN /\ last' = Response("DELETE", 404, "NotFound", "", NoData)
                /\ UNCHANGED <<verificationStorage, file>>
           ELSE /\ verificationStorage' = MapDelete(verificationStorage, sanitizedDomain)
                /\ file' = saveVerifications(verificationStorage', file, written)
                /\ last' = Response("DELETE", 200, "none", "", NoData)
        /\ UNCHANGED <<now, initializationPromise, sdkLoads, usedNonces, nonceTimestamps,
                       pc, body, accepted>>

\* The process is restarted: the module is evaluated again (lines 11-13,
\* 194-227), the store is read back from the file, requests in flight are
\* lost with the registry and the SDK promise.
Restart ==
    /\ verificationStorage' = LoadVerifications(file)
    /\ usedNonces' = {}
    /\ nonceTimestamps' = EmptyMap
    /\ initializationPromise' = "null"
    /\ sdkLoads' = 0
    /\ pc' = [r \in DOMAIN pc |-> "idle"]
    /\ body' = [r \in DOMAIN body |-> NoBody]
    /\ last' = Response("none", 0, "none", "", NoData)
    /\ accepted' = {}
    /\ UNCHANGED <<now, file>>

----------------------------------------------------------------------------
(* The link endpoints and the component start as follows; the              *)
(* specifications of api/domain-verification leave them there.             *)

NoLinkBody == [title |-> "", url |-> "", username |-> "", signature |-> [len |-> 0, val |-> NoSig],
               message |-> <<>>, address |-> EmptyAddr, order |-> 0]

NoLinkResponse == [op |-> "none", status |-> 0, error |-> "none", links |-> <<>>]

InitLinks ==
    /\ linksStorage = EmptyMap
    /\ pageLinksStorage = EmptyMap
    /\ userAddresses = EmptyMap
    /\ linkPc = [r \in Reqs |-> "idle"]
    /\ linkBody = [r \in Reqs |-> NoLinkBody]
    /\ linkLast = NoLinkResponse
    /\ uuids = 0

NoFetch == [status |-> 0, verified |-> FALSE]

InitClient ==
    /\ isVerified = FALSE
    /\ localStorage = "null"
    /\ checkPc = "unmounted"
    /\ checkResponse = NoFetch
    /\ clickPc = "idle"
    /\ clickResponse = NoFetch
    /\ challenge = NoBody
    /\ postSlot = 0

InitWire == wire = {}

\* the parts at process start, the page not yet loaded, nothing sent
InitAll == Init /\ InitLinks /\ InitClient /\ InitWire

----------------------------------------------------------------------------
(* Specification Spec: requests in flight together, the clock running past *)
(* the nonce expiry, bodies that are valid or fail one gate.               *)

Nonces == {"n1", "n2"}

\* a body that passes every gate: domain a, key K1, its address, nonce n
ValidShape(n) ==
    [dom |-> <<"a">>, key |-> "K1", ea |-> "own", sa |-> "own", ts |-> "fresh",
     msg |-> "ok", nonce |-> n, pk |-> "own", sig |-> "own"]

\* the valid body, and the valid body with one gate failing: an unusable
\* domain, a stale timestamp, another key pair for the same address (with
\* its own or with the victim's signature), a signature that does not parse
FaultsOf(v) ==
    { v,
      [v EXCEPT !.dom = <<".">>],
      [v EXCEPT !.ts = "stale"],
      [v EXCEPT !.pk = "other", !.sig = "otherKey"],
      [v EXCEPT !.pk = "other"],
      [v EXCEPT !.sig = "otherKey"],
      [v EXCEPT !.sig = "garbage"] }

Shapes == UNION { FaultsOf(ValidShape(n)) : n \in Nonces }

Queries == {<<"a">>, <<"a", ".">>, <<".">>, <<>>}

Next ==
    \/ Tick /\ UNCHANGED <<linkVars, clientVars, wireVars>>
    \/ SdkLoaded /\ UNCHANGED <<linkVars, clientVars, wireVars>>
    \/ SdkFailed /\ UNCHANGED <<linkVars, clientVars, wireVars>>
    \/ \E r \in DOMAIN pc : PostStart(r) /\ UNCHANGED <<linkVars, clientVars, wireVars>>
    \/ \E r \in DOMAIN pc : PostUnavailable(r) /\ UNCHANGED <<linkVars, clientVars, wireVars>>
    \/ \E r \in DOMAIN pc : \E s \in Shapes : PostGates(r, MkBody(s, now))
          /\ UNCHANGED <<linkVars, clientVars, wireVars>>
    \/ \E r \in DOMAIN pc : PostVerify(r, TRUE) /\ UNCHANGED <<linkVars, clientVars, wireVars>>
    \/ \E d \in Queries : Get(d) /\ UNCHANGED <<linkVars, clientVars, wireVars>>
    \/ \E d \in Queries : Delete(d, TRUE) /\ UNCHANGED <<linkVars, clientVars, wireVars>>

Spec == InitAll /\ [][Next]_allVars

----------------------------------------------------------------------------
(* Specification SpecGates: one request at a time, bodies that violate any *)
(* combination of gates.                                                   *)

GateShapes ==
    [dom : {<<"a">>, <<".">>, <<>>}, key : {"K1"}, ea : {"own", "upper"},
     sa : {"own", "upper", "other"}, ts : {"fresh", "stale", "future"},
     msg : {"ok", "otherNonce"}, nonce : {"n1", ""},
     pk : {"own", "own0x", "short", "other", "offcurve"},
     sig : {"own", "short", "garbage", "otherKey"}]
    \cup [dom : {<<"a", ".">>, LongDomain}, key : {"K1"}, ea : {"own"}, sa : {"own"},
          ts : {"fresh"}, msg : {"ok", "raw"}, nonce : {"n1"},
          pk : {"own", "nonhex"}, sig : {"own", "own0x"}]

InitGates ==
    /\ now = Epoch
    /\ initializationPromise = "null"
    /\ usedNonces = {}
    /\ nonceTimestamps = EmptyMap
    /\ verificationStorage = EmptyMap
    /\ file = Serialize(EmptyMap)
    /\ pc = [r \in {1} |-> "idle"]
    /\ body = [r \in {1} |-> NoBody]
    /\ last = Response("none", 0, "none", "", NoData)
    /\ accepted = {}
    /\ sdkLoads = 0

InitAllGates == InitGates /\ InitLinks /\ InitClient /\ InitWire

NextGates ==
    \/ SdkLoaded /\ UNCHANGED <<linkVars, clientVars, wireVars>>
    \/ \E r \in DOMAIN pc : PostStart(r) /\ UNCHANGED <<linkVars, clientVars, wireVars>>
    \/ \E r \in DOMAIN pc : \E s \in GateShapes : PostGates(r, MkBody(s, now))
          /\ UNCHANGED <<linkVars, clientVars, wireVars>>
    \/ \E r \in DOMAIN pc : PostVerify(r, TRUE) /\ UNCHANGED <<linkVars, clientVars, wireVars>>

SpecGates == InitAllGates /\ [][NextGates]_allVars

----------------------------------------------------------------------------
(* Specification SpecFresh: bodies that are valid but for their timestamp, *)
(* which lies on or next to a bound of the freshness window.               *)

FreshShapes ==
    { [ValidShape(n) EXCEPT !.ts = ts] :
        n \in Nonces, ts \in {"fresh", "oldest", "stale", "newest", "future"} }

NextFresh ==
    \/ SdkLoaded /\ UNCHANGED <<linkVars, clientVars, wireVars>>
    \/ \E r \in DOMAIN pc : PostStart(r) /\ UNCHANGED <<linkVars, clientVars, wireVars>>
    \/ \E r \in DOMAIN pc : \E s \in FreshShapes : PostGates(r, MkBody(s, now))
          /\ UNCHANGED <<linkVars, clientVars, wireVars>>
    \/ \E r \in DOMAIN pc : PostVerify(r, TRUE) /\ UNCHANGED <<linkVars, clientVars, wireVars>>
    \/ \E d \in Queries : Delete(d, TRUE) /\ UNCHANGED <<linkVars, clientVars, wireVars>>

SpecFresh == InitAll /\ [][NextFresh]_allVars

----------------------------------------------------------------------------
(* Specification SpecStore: two domains, file writes that fail, process    *)
(* restarts and an SDK that fails to load.                                 *)

Domains == {<<"a">>, <<"b">>}

OnDomain(n, d) == [ValidShape(n) EXCEPT !.dom = d]

StoreShapes ==
    { OnDomain(n, d) : n \in Nonces, d \in Domains }
    \cup { [ValidShape("n1") EXCEPT !.sig = "garbage"] }

StoreQueries == Queries \cup {<<"b">>}

NextStore ==
    \/ SdkLoaded /\ UNCHANGED <<linkVars, clientVars, wireVars>>
    \/ SdkFailed /\ UNCHANGED <<linkVars, clientVars, wireVars>>
    \/ Restart /\ UNCHANGED <<linkVars, clientVars, wireVars>>
    \/ \E r \in DOMAIN pc : PostStart(r) /\ UNCHANGED <<linkVars, clientVars, wireVars>>
    \/ \E r \in DOMAIN pc : PostUnavailable(r) /\ UNCHANGED <<linkVars, clientVars, wireVars>>
    \/ \E r \in DOMAIN pc : \E s \in StoreShapes : PostGates(r, MkBody(s, now))
          /\ UNCHANGED <<linkVars, clientVars, wireVars>>
    \/ \E r \in DOMAIN pc : \E written \in BOOLEAN : PostVerify(r, written)
          /\ UNCHANGED <<linkVars, clientVars, wireVars>>
    \/ \E d \in StoreQueries : Get(d) /\ UNCHANGED <<linkVars, clientVars, wireVars>>
    \/ \E d \in StoreQueries : \E written \in BOOLEAN : Delete(d, written)
          /\ UNCHANGED <<linkVars, clientVars, wireVars>>

SpecStore == InitAll /\ [][NextStore]_allVars

----------------------------------------------------------------------------
(* The link endpoints: POST api/links/create and GET api/links/[username]. *)
(* Each is a module of its own with its own module-level Maps.             *)
(*                                                                         *)
(* A message is a sequence of tokens separated by single blanks; a token   *)
(* is a word or a run of decimal digits, a number token standing for the   *)
(* digits that print it.                                                   *)

MaxLinks == 2           \* links created in one run

W(text) == [kind |-> "word", text |-> text, num |-> 0]
N(num) == [kind |-> "num", text |-> "", num |-> num]

\* `${action} for ${username} at ${timestamp}` with action 'Create link'
createSigningMessage(username, timestamp) ==
    <<W("Create"), W("link"), W("for"), W(username), W("at"), N(timestamp)>>

\* the words of the model that end in "at"
EndsInAt(text) == text \in {"at", "cat"}

\* message.match(/at (\d+)/) and parseInt of its group: the leftmost "at "
\* that digits follow, and the number they print
timestampMatch(message) ==
    LET at == { i \in 1..(Len(message) - 1) :
                  /\ message[i].kind = "word"
                  /\ EndsInAt(message[i].text)
                  /\ message[i + 1].kind = "num" }
    IN  IF at = {}
        THEN [found |-> FALSE, timestamp |-> 0]
        ELSE [found |-> TRUE,
              timestamp |-> message[(CHOOSE i \in at : \A j \in at : i <= j) + 1].num]

\* message.includes(username), for usernames that are one word
Includes(message, username) ==
    \E i \in 1..Len(message) : message[i].kind = "word" /\ message[i].text = username

\* new URL(url) does not throw
ParsesAsURL(url) == url \in {"https://example.com", " https://example.com"}

\* String.prototype.trim on the strings of the model
Trim(str) ==
    CASE str = " "                    -> ""
      [] str = " https://example.com" -> "https://example.com"
      [] OTHER                        -> str

\* verifyChiaSignature: format checks only, then `return true`
verifyChiaSignature(message, signature, address) ==
    IF signature.len < 64 THEN FALSE
    ELSE IF ~(address.hrp = "xch1" /\ 4 + address.len = 62) THEN FALSE
    ELSE IF message = <<>> THEN FALSE
    ELSE TRUE

\* verifySignatureData with an age bound of ten minutes
verifySignatureData_TenMinutes(data, expectedUsername, t) ==
    LET timeDiff == t - data.timestamp IN
    IF timeDiff > 10 * 60 * 1000
    THEN [valid |-> FALSE, error |-> "TimestampTooOld"]
    ELSE IF timeDiff < 0 - 60000
    THEN [valid |-> FALSE, error |-> "TimestampInFuture"]
    ELSE IF ~verifyChiaSignature(data.message, data.signature, data.address)
    THEN [valid |-> FALSE, error |-> "InvalidSignature"]
    ELSE IF ~Includes(data.message, expectedUsername)
    THEN [valid |-> FALSE, error |-> "UsernameMismatch"]
    ELSE [valid |-> TRUE, error |-> "none"]

\* verifySignatureData called at clock value t
verifySignatureData(data, expectedUsername, t) ==
    LET timeDiff == t - data.timestamp IN
    IF timeDiff > 5 * 60 * 1000
    THEN [valid |-> FALSE, error |-> "TimestampTooOld"]
    ELSE IF timeDiff < 0 - 60000
    THEN [valid |-> FALSE, error |-> "TimestampInFuture"]
    ELSE IF ~verifyChiaSignature(data.message, data.signature, data.address)
    THEN [valid |-> FALSE, error |-> "InvalidSignature"]
    ELSE IF ~Includes(data.message, expectedUsername)
    THEN [valid |-> FALSE, error |-> "UsernameMismatch"]
    ELSE [valid |-> TRUE, error |-> "none"]

\* getUserWalletAddress: `return null`
getUserWalletAddress(username) == "null"

\* validateUserAddress
validateUserAddress(username, signingAddress) ==
    IF getUserWalletAddress(username) = "null"
    THEN FALSE
    ELSE getUserWalletAddress(username) = signingAddress

LinksOf(storage, username) ==
    IF username \in DOMAIN storage THEN storage[username] ELSE <<>>

RECURSIVE MaxOrder(_)
\* Math.max(...existingLinks.map(link => link.order)), 0 for no links
MaxOrder(links) ==
    IF links = <<>> THEN 0
    ELSE IF Len(links) = 1 THEN links[1].order
    ELSE LET rest == MaxOrder(Tail(links)) IN
         IF links[1].order >= rest THEN links[1].order ELSE rest

\* lines 93-104: the link made of the body
newLink(b, existingLinks, id, t) ==
    [id         |-> id,
     username   |-> b.username,
     title      |-> Trim(b.title),
     url        |-> Trim(b.url),
     icon       |-> "custom",
     order      |-> IF b.order # 0 THEN b.order ELSE MaxOrder(existingLinks) + 1,
     is_active  |-> TRUE,
     created_at |-> t,
     updated_at |-> t]

LinkResponse(op, status, error, links) ==
    [op |-> op, status |-> status, error |-> error, links |-> links]

\* lines 27-59: the validations before the signature is looked at, "none"
\* when the body passes them
LinkValidation(b) ==
    IF b.title = "" \/ b.url = "" \/ b.username = "" THEN "FieldsRequired"
    ELSE IF b.signature.len = 0 \/ b.message = <<>> \/ FalsyAddr(b.address)
    THEN "SignatureRequired"
    ELSE IF ~ParsesAsURL(b.url) THEN "InvalidURL"
    ELSE IF ~timestampMatch(b.message).found THEN "InvalidMessageFormat"
    ELSE "none"

\* lines 54-60
signatureData(b) ==
    [message   |-> b.message,
     signature |-> b.signature,
     address   |-> b.address,
     action    |-> "create",
     timestamp |-> timestampMatch(b.message).timestamp]

\* POST arrives (lines 21-62): validate the body, read the timestamp, call
\* verifySignatureData and suspend on it.  verifySignatureData reads the
\* clock and runs to its verdict before its first await resolves.
LinkStart(r, b) ==
    /\ linkPc[r] = "idle"
    /\ \A q \in DOMAIN linkPc : q < r => linkPc[q] # "idle"
    /\ uuids + Cardinality({ q \in DOMAIN linkPc : linkPc[q] # "idle" }) < MaxLinks
    /\ IF LinkValidation(b) # "none"
       THEN /\ linkLast' = LinkResponse("POST", 400, LinkValidation(b), <<>>)
            /\ UNCHANGED <<linkPc, linkBody>>
       ELSE /\ linkPc' = [linkPc EXCEPT ![r] = "signature"]
            /\ linkBody' = [linkBody EXCEPT ![r] = b]
            /\ UNCHANGED linkLast
    /\ UNCHANGED <<linksStorage, pageLinksStorage, userAddresses, uuids>>

\* lines 62-73: the verdict of verifySignatureData; 401, or register the
\* address of a username that has none and suspend on validateUserAddress
LinkVerified(r) ==
    LET b == linkBody[r]
        verificationResult == verifySignatureData(signatureData(b), b.username, now)
    IN  /\ linkPc[r] = "signature"
        /\ IF ~verificationResult.valid
           THEN /\ linkLast' = LinkResponse("POST", 401, verificationResult.error, <<>>)
                /\ linkPc' = [linkPc EXCEPT ![r] = "idle"]
                /\ linkBody' = [linkBody EXCEPT ![r] = NoLinkBody]
                /\ UNCHANGED userAddresses
           ELSE /\ userAddresses' =
                      IF b.username \notin DOMAIN userAddresses
                      THEN MapSet(userAddresses, b.username, b.address)
                      ELSE userAddresses
                /\ linkPc' = [linkPc EXCEPT ![r] = "user"]
                /\ UNCHANGED <<linkLast, linkBody>>
        /\ UNCHANGED <<linksStorage, pageLinksStorage, uuids>>

\* LinkUser with the address of the request registered in place of the
\* comparison of lines 78-80
LinkUser_Rebind(r) ==
    LET b == linkBody[r]
        isValidUser == validateUserAddress(b.username, b.address)
        existingLinks == LinksOf(linksStorage, b.username)
        link == newLink(b, existingLinks, uuids + 1, now)
    IN  /\ linkPc[r] = "user"
        /\ userAddresses' = IF isValidUser THEN userAddresses
                            ELSE MapSet(userAddresses, b.username, b.address)
        /\ linksStorage' = MapSet(linksStorage, b.username, Append(existingLinks, link))
        /\ uuids' = uuids + 1
        /\ linkLast' = LinkResponse("POST", 201, "none", <<link>>)
        /\ linkPc' = [linkPc EXCEPT ![r] = "idle"]
        /\ linkBody' = [linkBody EXCEPT ![r] = NoLinkBody]
        /\ UNCHANGED pageLinksStorage

\* lines 73-120: the verdict of validateUserAddress; 403 for another
\* address than the registered one, or append the new link and answer 201
LinkUser(r) ==
    LET b == linkBody[r]
        isValidUser == validateUserAddress(b.username, b.address)
        registered == b.username \in DOMAIN userAddresses
        existingLinks == LinksOf(linksStorage, b.username)
        link == newLink(b, existingLinks, uuids + 1, now)
    IN  /\ linkPc[r] = "user"
        /\ IF ~isValidUser /\ registered /\ userAddresses[b.username] # b.address
           THEN /\ linkLast' = LinkResponse("POST", 403, "AddressMismatch", <<>>)
                /\ UNCHANGED <<userAddresses, linksStorage, uuids>>
           ELSE /\ userAddresses' =
                      IF ~isValidUser /\ ~registered
                      THEN MapSet(userAddresses, b.username, b.address)
                      ELSE userAddresses
                /\ linksStorage' =
                      MapSet(linksStorage, b.username, Append(existingLinks, link))
                /\ uuids' = uuids + 1
                /\ linkLast' = LinkResponse("POST", 201, "none", <<link>>)
        /\ linkPc' = [linkPc EXCEPT ![r] = "idle"]
        /\ linkBody' = [linkBody EXCEPT ![r] = NoLinkBody]
        /\ UNCHANGED pageLinksStorage

\* lines 178-215
demoLinks(t) ==
    << [id |-> "demo-1", username |-> "demo", title |-> "My Website",
        url |-> "https://example.com", icon |-> "website", order |-> 1,
        is_active |-> TRUE, created_at |-> t, updated_at |-> t],
       [id |-> "demo-2", username |-> "demo", title |-> "Twitter",
        url |-> "https://twitter.com/demo", icon |-> "twitter", order |-> 2,
        is_active |-> TRUE, created_at |-> t, updated_at |-> t],
       [id |-> "demo-3", username |-> "demo", title |-> "NFT Collection",
        url |-> "https://mintgarden.io/collections/demo", icon |-> "nft", order |-> 3,
        is_active |-> TRUE, created_at |-> t, updated_at |-> t] >>

IsActive(link) == link.is_active

RECURSIVE Insert(_, _)
\* the link put before the first link of a greater order
Insert(link, sorted) ==
    IF sorted = <<>> THEN <<link>>
    ELSE IF sorted[1].order > link.order THEN <<link>> \o sorted
    ELSE <<sorted[1]>> \o Insert(link, Tail(sorted))

RECURSIVE SortByOrder(_)
\* .sort((a, b) => a.order - b.order), a stable sort
SortByOrder(links) ==
    IF links = <<>> THEN <<>>
    ELSE Insert(links[Len(links)], SortByOrder(SubSeq(links, 1, Len(links) - 1)))

\* GET api/links/[username]: the handler and handleGetLinks, which read
\* the Map of their own module
GetLinks(username) ==
    LET userLinks == LinksOf(pageLinksStorage, username)
        activeLinks == SortByOrder(SelectSeq(userLinks, IsActive))
    IN  /\ IF username = ""
           THEN /\ linkLast' = LinkResponse("GET", 400, "UsernameRequired", <<>>)
                /\ UNCHANGED pageLinksStorage
           ELSE IF activeLinks = <<>> /\ username = "demo"
           THEN /\ pageLinksStorage' = MapSet(pageLinksStorage, username, demoLinks(now))
                /\ linkLast' = LinkResponse("GET", 200, "none", demoLinks(now))
           ELSE /\ linkLast' = LinkResponse("GET", 200, "none", activeLinks)
                /\ UNCHANGED pageLinksStorage
        /\ UNCHANGED <<linksStorage, userAddresses, linkPc, linkBody, uuids>>

\* The process is restarted: both modules are evaluated again
LinkRestart ==
    /\ linksStorage' = EmptyMap
    /\ pageLinksStorage' = EmptyMap
    /\ userAddresses' = EmptyMap
    /\ linkPc' = [r \in DOMAIN linkPc |-> "idle"]
    /\ linkBody' = [r \in DOMAIN linkBody |-> NoLinkBody]
    /\ linkLast' = NoLinkResponse
    /\ uuids' = 0

----------------------------------------------------------------------------
(* Specification SpecLinks: create requests in flight together for two     *)
(* usernames and two addresses, valid or failing one check, timestamps on  *)
(* and next to the bounds of the window, and page loads.                   *)

LinkUsers == {"alice", "bob"}

LinkOffset(ts) ==
    CASE ts = "fresh"  -> 0
      [] ts = "oldest" -> 5 * 60 * 1000
      [] ts = "stale"  -> 5 * 60 * 1000 + 1
      [] ts = "newest" -> 0 - 60000
      [] ts = "future" -> 0 - 60001

\* the body a client sends at clock value t
MkLinkBody(s, t) ==
    LET timestamp == t - LinkOffset(s.ts)
        message ==
            CASE s.msg = "ok"          -> createSigningMessage(s.user, timestamp)
              [] s.msg = "otherUser"   -> createSigningMessage("carol", timestamp)
              [] s.msg = "noTimestamp" -> <<W("Create"), W("link"), W("for"), W(s.user)>>
              [] s.msg = "noAt"        -> <<W("Create"), W("link"), W("for"), W(s.user),
                                            N(timestamp)>>
              [] s.msg = "double"      -> createSigningMessage(s.user, timestamp)
                                            \o <<W("at"), N(0)>>
              [] s.msg = "empty"       -> <<>>
        signature ==
            CASE s.sig = "own"      -> [len |-> SigHexLen, val |-> SigOf(s.key, message)]
              [] s.sig = "otherKey" -> [len |-> SigHexLen, val |-> SigOf(OtherKey(s.key), message)]
              [] s.sig = "garbage"  -> [len |-> 64, val |-> NoSig]
              [] s.sig = "short"    -> [len |-> 63, val |-> SigOf(s.key, message)]
              [] s.sig = "empty"    -> [len |-> 0, val |-> NoSig]
    IN  [title     |-> s.title,
         url       |-> s.url,
         username  |-> s.user,
         signature |-> signature,
         message   |-> message,
         address   |-> AddrOfShape(s.addr, s.key),
         order     |-> s.order]

\* a create request that passes every check: user u signs with key k
ValidLinkShape(u, k) ==
    [user |-> u, key |-> k, addr |-> "own", ts |-> "fresh", msg |-> "ok", sig |-> "own",
     title |-> "Home", url |-> "https://example.com", order |-> 0]

LinkFaultsOf(v) ==
    { v,
      [v EXCEPT !.ts = "oldest"], [v EXCEPT !.ts = "stale"],
      [v EXCEPT !.ts = "newest"], [v EXCEPT !.ts = "future"],
      [v EXCEPT !.msg = "otherUser"], [v EXCEPT !.msg = "noTimestamp"],
      [v EXCEPT !.msg = "noAt"], [v EXCEPT !.msg = "double"],
      [v EXCEPT !.sig = "garbage"], [v EXCEPT !.sig = "short"],
      [v EXCEPT !.title = ""], [v EXCEPT !.url = "not a url"] }

\* alice with her key, valid or failing one check; alice with another key
\* and address; bob
LinkShapes ==
    LinkFaultsOf(ValidLinkShape("alice", "K1"))
    \cup {ValidLinkShape("alice", "K2"), ValidLinkShape("bob", "K1")}

PageQueries == {"alice", "demo", ""}

NextLinks ==
    \/ \E r \in DOMAIN linkPc : \E s \in LinkShapes : LinkStart(r, MkLinkBody(s, now))
          /\ UNCHANGED <<vars, clientVars, wireVars>>
    \/ \E r \in DOMAIN linkPc : LinkVerified(r) /\ UNCHANGED <<vars, clientVars, wireVars>>
    \/ \E r \in DOMAIN linkPc : LinkUser(r) /\ UNCHANGED <<vars, clientVars, wireVars>>
    \/ \E u \in PageQueries : GetLinks(u) /\ UNCHANGED <<vars, clientVars, wireVars>>
    \/ LinkRestart /\ UNCHANGED <<vars, clientVars, wireVars>>

SpecLinks == InitAll /\ [][NextLinks]_allVars

----------------------------------------------------------------------------
(* Specification SpecReplay: an observer of the network keeps the bodies   *)
(* of accepted POSTs and sends them again, unchanged, at any later time,   *)
(* also after the sweep has evicted their nonces and after a restart of    *)
(* the process.                                                            *)

MaxCaptured == 2        \* bodies the observer keeps

\* valid bodies whose timestamp is the clock of the sender, or runs ahead of
\* the server by the tolerated skew
ReplayShapes ==
    { ValidShape("n1"),
      [ValidShape("n1") EXCEPT !.ts = "newest"],
      [ValidShape("n2") EXCEPT !.ts = "oldest"] }

\* a POST whose body is the copy of an accepted one reaches the gates
Resend(r) == \E b \in wire : PostGates(r, b)

\* the answer of request r leaves the server; a 200 is recorded with its body
Answered(r) ==
    /\ PostVerify(r, TRUE)
    /\ wire' = IF last'.status = 200 /\ Cardinality(wire) < MaxCaptured
               THEN wire \cup {body[r]}
               ELSE wire

NextReplay ==
    \/ Tick /\ UNCHANGED <<linkVars, clientVars, wireVars>>
    \/ SdkLoaded /\ UNCHANGED <<linkVars, clientVars, wireVars>>
    \/ Restart /\ UNCHANGED <<linkVars, clientVars, wireVars>>
    \/ \E r \in DOMAIN pc : PostStart(r) /\ UNCHANGED <<linkVars, clientVars, wireVars>>
    \/ \E r \in DOMAIN pc : \E s \in ReplayShapes : PostGates(r, MkBody(s, now))
          /\ UNCHANGED <<linkVars, clientVars, wireVars>>
    \/ \E r \in DOMAIN pc : Resend(r) /\ UNCHANGED <<linkVars, clientVars, wireVars>>
    \/ \E r \in DOMAIN pc : Answered(r) /\ UNCHANGED <<linkVars, clientVars>>

SpecReplay == InitAll /\ [][NextReplay]_allVars

----------------------------------------------------------------------------
(* Specification SpecKeys: one owner verifies, looks up and revokes under  *)
(* domain strings that are, or are not, left as they are by the sanitizer. *)

KeyDomains == {<<"a">>, <<"a", ".">>, <<"b">>}

\* valid bodies: the message is the one the server recomputes, built from
\* the sanitized domain
KeyShapes ==
    { OnDomain(n, d) : n \in Nonces, d \in KeyDomains }
    \cup { [OnDomain("n1", <<"a", ".">>) EXCEPT !.msg = "raw"] }

NextKeys ==
    \/ SdkLoaded /\ UNCHANGED <<linkVars, clientVars, wireVars>>
    \/ \E r \in DOMAIN pc : PostStart(r) /\ UNCHANGED <<linkVars, clientVars, wireVars>>
    \/ \E r \in DOMAIN pc : \E s \in KeyShapes : PostGates(r, MkBody(s, now))
          /\ UNCHANGED <<linkVars, clientVars, wireVars>>
    \/ \E r \in DOMAIN pc : Answered(r) /\ UNCHANGED <<linkVars, clientVars>>
    \/ \E d \in KeyDomains : Get(d) /\ UNCHANGED <<linkVars, clientVars, wireVars>>
    \/ \E d \in KeyDomains : Delete(d, TRUE) /\ UNCHANGED <<linkVars, clientVars, wireVars>>

SpecKeys == InitAll /\ [][NextKeys]_allVars

----------------------------------------------------------------------------
(* The DomainOwnershipVerification component in one browser, on the page   *)
(* of PageDomain, with the wallet of its owner connected.  Each action is  *)
(* one uninterrupted segment of checkInitialStatus or                      *)
(* handleVerifyOwnership, or the server handling a request of the          *)
(* component; a fetch is served in one action and resolves in a later one. *)

PageDomain == <<"a">>

Fetched(status, verified) == [status |-> status, verified |-> verified]

\* response.ok
Ok(response) == response.status >= 200 /\ response.status <= 299

\* lines 183-195: the component mounts with isVerified = false, reads the
\* localStorage flag and sends the GET
checkInitialStatus ==
    /\ checkPc = "unmounted"
    /\ isVerified' = (localStorage = "true")
    /\ checkPc' = "fetching"
    /\ UNCHANGED <<localStorage, checkResponse, clickPc, clickResponse, challenge, postSlot>>
    /\ UNCHANGED <<vars, linkVars, wireVars>>

\* the server handles the GET of the component
CheckServed ==
    /\ checkPc = "fetching"
    /\ Get(PageDomain)
    /\ checkResponse' = Fetched(last'.status, last'.data.verified)
    /\ checkPc' = "responded"
    /\ UNCHANGED <<isVerified, localStorage, clickPc, clickResponse, challenge, postSlot>>
    /\ UNCHANGED <<linkVars, wireVars>>

\* lines 214-217: the fetch throws, the flags stay
CheckFailed ==
    /\ checkPc = "fetching"
    /\ checkPc' = "done"
    /\ UNCHANGED <<isVerified, localStorage, checkResponse, clickPc, clickResponse,
                   challenge, postSlot>>
    /\ UNCHANGED <<vars, linkVars, wireVars>>

\* lines 196-213: the fetch resolves; the flags follow data.verified when
\* response.ok and stay otherwise
CheckResolved ==
    /\ checkPc = "responded"
    /\ IF Ok(checkResponse)
       THEN /\ isVerified' = checkResponse.verified
            /\ localStorage' = IF checkResponse.verified THEN "true" ELSE "null"
       ELSE UNCHANGED <<isVerified, localStorage>>
    /\ checkPc' = "done"
    /\ UNCHANGED <<checkResponse, clickPc, clickResponse, challenge, postSlot>>
    /\ UNCHANGED <<vars, linkVars, wireVars>>

\* lines 36-115: the button of the modal.  With isVerified the DELETE is
\* sent (the confirm dialog accepted); otherwise a challenge with the nonce
\* n is generated and handed to the wallet.
handleVerifyOwnership(n) ==
    /\ checkPc # "unmounted"
    /\ clickPc = "idle"
    /\ IF isVerified
       THEN /\ clickPc' = "deleting"
            /\ UNCHANGED challenge
       ELSE /\ clickPc' = "signing"
            /\ challenge' = MkBody(ValidShape(n), now)
    /\ UNCHANGED <<isVerified, localStorage, checkPc, checkResponse, clickResponse, postSlot>>
    /\ UNCHANGED <<vars, linkVars, wireVars>>

\* lines 112-132: chiaSignMessage resolves and the POST is sent
WalletSigned ==
    /\ clickPc = "signing"
    /\ clickPc' = "posting"
    /\ UNCHANGED <<isVerified, localStorage, checkPc, checkResponse, clickResponse,
                   challenge, postSlot>>
    /\ UNCHANGED <<vars, linkVars, wireVars>>

\* lines 159-179: the request is rejected in the wallet
WalletRejected ==
    /\ clickPc = "signing"
    /\ clickPc' = "idle"
    /\ challenge' = NoBody
    /\ UNCHANGED <<isVerified, localStorage, checkPc, checkResponse, clickResponse, postSlot>>
    /\ UNCHANGED <<vars, linkVars, wireVars>>

\* the POST of the component arrives at the server
PagePostStart(r) ==
    /\ clickPc = "posting"
    /\ postSlot = 0
    /\ PostStart(r)
    /\ postSlot' = r
    /\ UNCHANGED <<isVerified, localStorage, checkPc, checkResponse, clickPc,
                   clickResponse, challenge>>
    /\ UNCHANGED <<linkVars, wireVars>>

\* the server cannot load the SDK and answers the POST of the component
PagePostUnavailable ==
    /\ clickPc = "posting"
    /\ postSlot \in DOMAIN pc
    /\ PostUnavailable(postSlot)
    /\ clickResponse' = Fetched(last'.status, FALSE)
    /\ clickPc' = "posted"
    /\ UNCHANGED <<isVerified, localStorage, checkPc, checkResponse, challenge, postSlot>>
    /\ UNCHANGED <<linkVars, wireVars>>

\* the server runs the gates on the POST of the component
PagePostGates ==
    /\ clickPc = "posting"
    /\ postSlot \in DOMAIN pc
    /\ PostGates(postSlot, challenge)
    /\ IF pc'[postSlot] = "idle"
       THEN /\ clickResponse' = Fetched(last'.status, FALSE)
            /\ clickPc' = "posted"
       ELSE UNCHANGED <<clickResponse, clickPc>>
    /\ UNCHANGED <<isVerified, localStorage, checkPc, checkResponse, challenge, postSlot>>
    /\ UNCHANGED <<linkVars, wireVars>>

\* the server verifies the signature and answers the POST of the component
PagePostVerify ==
    /\ clickPc = "posting"
    /\ postSlot \in DOMAIN pc
    /\ PostVerify(postSlot, TRUE)
    /\ clickResponse' = Fetched(last'.status, last'.data.verified)
    /\ clickPc' = "posted"
    /\ UNCHANGED <<isVerified, localStorage, checkPc, checkResponse, challenge, postSlot>>
    /\ UNCHANGED <<linkVars, wireVars>>

\* lines 134-157 with verifyDomainOwnership lines 69-75: valid on 200
PostResolved ==
    /\ clickPc = "posted"
    /\ IF Ok(clickResponse)
       THEN /\ isVerified' = TRUE
            /\ localStorage' = "true"
       ELSE UNCHANGED <<isVerified, localStorage>>
    /\ clickPc' = "idle"
    /\ challenge' = NoBody
    /\ postSlot' = 0
    /\ UNCHANGED <<checkPc, checkResponse, clickResponse>>
    /\ UNCHANGED <<vars, linkVars, wireVars>>

\* the server handles the DELETE of the component
DeleteServed ==
    /\ clickPc = "deleting"
    /\ Delete(PageDomain, TRUE)
    /\ clickResponse' = Fetched(last'.status, FALSE)
    /\ clickPc' = "deleted"
    /\ UNCHANGED <<isVerified, localStorage, checkPc, checkResponse, challenge, postSlot>>
    /\ UNCHANGED <<linkVars, wireVars>>

\* lines 61-94 with unverifyDomainOwnership lines 121-130: success on 200
DeleteResolved ==
    /\ clickPc = "deleted"
    /\ IF Ok(clickResponse)
       THEN /\ isVerified' = FALSE
            /\ localStorage' = "null"
       ELSE UNCHANGED <<isVerified, localStorage>>
    /\ clickPc' = "idle"
    /\ UNCHANGED <<checkPc, checkResponse, clickResponse, challenge, postSlot>>
    /\ UNCHANGED <<vars, linkVars, wireVars>>

\* the page is left and loaded again: the component state is gone, the
\* localStorage item stays
Reload ==
    /\ checkPc # "unmounted"
    /\ clickPc = "idle"
    /\ isVerified' = FALSE
    /\ checkPc' = "unmounted"
    /\ checkResponse' = NoFetch
    /\ clickResponse' = NoFetch
    /\ UNCHANGED <<localStorage, clickPc, challenge, postSlot>>
    /\ UNCHANGED <<vars, linkVars, wireVars>>

\* another browser removes the verification: DELETE asks for no proof
OtherDelete ==
    /\ Delete(PageDomain, TRUE)
    /\ UNCHANGED <<linkVars, clientVars, wireVars>>

----------------------------------------------------------------------------
(* Specification SpecClient: the component against the server, and a       *)
(* second browser that revokes.                                            *)

NextClient ==
    \/ SdkLoaded /\ UNCHANGED <<linkVars, clientVars, wireVars>>
    \/ SdkFailed /\ UNCHANGED <<linkVars, clientVars, wireVars>>
    \/ Restart /\ postSlot = 0 /\ UNCHANGED <<linkVars, clientVars, wireVars>>
    \/ checkInitialStatus
    \/ CheckServed
    \/ CheckFailed
    \/ CheckResolved
    \/ \E n \in Nonces : handleVerifyOwnership(n)
    \/ WalletSigned
    \/ WalletRejected
    \/ \E r \in DOMAIN pc : PagePostStart(r)
    \/ PagePostUnavailable
    \/ PagePostGates
    \/ PagePostVerify
    \/ PostResolved
    \/ DeleteServed
    \/ DeleteResolved
    \/ Reload
    \/ OtherDelete

SpecClient == InitAll /\ [][NextClient]_allVars

----------------------------------------------------------------------------
(* Properties *)

Slots == DOMAIN pc

\* nonces held by the requests suspended in verifyBLSSignature
InFlight == { body[r].nonce : r \in { q \in Slots : pc[q] = "verify" } }

\* the step in which request r runs the gates, and the one in which it
\* resumes from verifyBLSSignature
GateStep(r) == pc[r] = "init" /\ initializationPromise = "fulfilled" /\ pc'[r] # "init"
VerifyStep(r) == pc[r] = "verify" /\ pc'[r] = "idle"

\* the last response is a rejection by a gate behind the replay check
LastFailedLate == last.op = "POST" /\ last.status = 400 /\ last.error \in LateGates

\* the nonce of the body read in a gate step of request r
StepNonce(r) == IF pc'[r] = "verify" THEN body'[r].nonce ELSE last'.nonce

\* C1: a nonce of a 200 response stays in the registry until the sweep
\* evicts it, and a later POST that carries it while it is not yet expired
\* is rejected with 400 and changes neither the store nor the file; the
\* error is the replay error for every body that reaches the replay check
\* (all fields present, usable domain), valid or not.
C1_NonceAcceptedOnce ==
    /\ [](accepted \subseteq usedNonces)
    /\ [][\A r \in Slots :
            (/\ GateStep(r)
             /\ StepNonce(r) \in accepted
             /\ StepNonce(r) \notin Expired(nonceTimestamps, now))
            => /\ pc'[r] = "idle"
               /\ last'.op = "POST"
               /\ last'.status = 400
               /\ verificationStorage' = verificationStorage
               /\ file' = file
               /\ \A s \in Shapes :
                    (/\ s.nonce = StepNonce(r)
                     /\ PostGates(r, MkBody(s, now))
                     /\ ~MissingFields(MkBody(s, now))
                     /\ sanitizeDomainName(s.dom).valid)
                    => last'.error = "ReplayDetected"
       ]_vars

\* a POST carrying an accepted, unexpired nonce has been rejected as a replay
C1_Witness ==
    /\ last.op = "POST"
    /\ last.status = 400
    /\ last.error = "ReplayDetected"
    /\ last.nonce \in accepted

\* C2: of the requests in flight together with one nonce at most one gets
\* past the replay check: no two suspended requests hold the same nonce, a
\* held nonce is in the registry, and a request is accepted with 200 only
\* for a nonce that no accepted request and no other request in flight holds.
C2_AtomicTestAndSet ==
    /\ [](\A q, r \in Slots :
            (q # r /\ pc[q] = "verify" /\ pc[r] = "verify")
               => body[q].nonce # body[r].nonce)
    /\ [](InFlight \subseteq usedNonces)
    /\ [][\A r \in Slots :
            (VerifyStep(r) /\ last'.status = 200)
            => /\ body[r].nonce \notin accepted
               /\ \A q \in Slots \ {r} :
                     pc[q] = "verify" => body[q].nonce # body[r].nonce
       ]_vars

\* two requests with one nonce in flight together: one is suspended in
\* verifyBLSSignature, the other has been rejected as a replay
C2_Witness ==
    \E r \in Slots :
        /\ pc[r] = "verify"
        /\ last.op = "POST"
        /\ last.error = "ReplayDetected"
        /\ last.nonce = body[r].nonce
        /\ last.nonce \notin accepted

\* the public key is well formed and derives to another address than
\* expectedAddress
KeySubstituted(b) ==
    LET k == Clean(b.publicKey) IN
    /\ k.len = 96
    /\ k.ishex
    /\ k.val \in Keys
    /\ AddressOfKey(k.val) # b.expectedAddress

\* C3: a POST whose well-formed public key derives to another address than
\* expectedAddress is rejected with 400, writes neither the store nor the
\* file, and its nonce is not in the registry afterwards.
C3_KeySubstitutionNeverStored ==
    [][\A r \in Slots :
          (VerifyStep(r) /\ KeySubstituted(body[r]))
          => /\ last'.op = "POST"
             /\ last'.status = 400
             /\ verificationStorage' = verificationStorage
             /\ file' = file
             /\ body[r].nonce \notin usedNonces'
             /\ body[r].nonce \notin DOMAIN nonceTimestamps'
      ]_vars

\* a key substitution has been rejected and its nonce is not in the registry
C3_Witness ==
    /\ last.op = "POST"
    /\ last.status = 400
    /\ last.error = "KeySubstitution"
    /\ last.nonce \notin usedNonces

\* the record under domain d is a complete proof: verified, keyed by its own
\* sanitized domain, a well-formed address to which its public key derives,
\* a message built from the domain and the nonce, signed by that key
RecordProven(d, rec) ==
    LET k == Clean(rec.publicKey)
        g == Clean(rec.signature)
    IN  /\ rec.verified = TRUE
        /\ rec.domain = d
        /\ StripInvalid(d) = d /\ Len(d) \in 1..100
        /\ rec.address.hrp = "xch1" /\ rec.address.len = 58 /\ rec.address.lower
        /\ k.len = 96 /\ k.ishex /\ k.val \in Keys
        /\ AddressOfKey(k.val) = rec.address
        /\ g.len = 192 /\ g.ishex
        /\ g.val = [signer |-> k.val, msg |-> rec.message]
        /\ Len(rec.message) = 6
        /\ rec.message = <<"Verify ownership of domain ", d, " at ", rec.message[4],
                           " with nonce ", rec.nonce>>

\* C4: every record in the store is verified and a complete proof (key bound
\* to the address, message signed by the key), and a step of a POST that
\* does not end in 200 leaves the store and the file as they are.
C4_OnlyProvenRecords ==
    /\ [](\A d \in DOMAIN verificationStorage : RecordProven(d, verificationStorage[d]))
    /\ [][\A r \in Slots :
            (pc'[r] # pc[r] /\ ~(VerifyStep(r) /\ last'.status = 200))
            => /\ verificationStorage' = verificationStorage
               /\ file' = file
       ]_vars

\* a record is in the store and a POST with a bad signature has been rejected
C4_Witness ==
    /\ <<"a">> \in DOMAIN verificationStorage
    /\ last.op = "POST"
    /\ last.status = 400
    /\ last.error = "InvalidSignature"

\* the body is a proof by key k for an already sanitized domain with a
\* timestamp that is fresh at clock value t
ValidRequest(b, t) ==
    \E k \in Keys :
        /\ b.domain # <<>> /\ StripInvalid(b.domain) = b.domain /\ Len(b.domain) <= 100
        /\ b.expectedAddress = AddressOfKey(k)
        /\ b.signingAddress = AddressOfKey(k)
        /\ b.nonce # ""
        /\ b.timestamp # 0
        /\ t - b.timestamp <= 120000 /\ t - b.timestamp >= 0 - 30000
        /\ b.message = <<"Verify ownership of domain ", b.domain, " at ", b.timestamp,
                         " with nonce ", b.nonce>>
        /\ b.publicKey = [p0x |-> FALSE, len |-> 96, ishex |-> TRUE, val |-> k]
        /\ b.signature = [p0x |-> FALSE, len |-> 192, ishex |-> TRUE,
                          val |-> [signer |-> k, msg |-> b.message]]

\* C5: with the crypto subsystem initialized, a valid request with an unused
\* nonce is not rejected by a gate and is answered 200 with its record
\* stored under the domain, and a GET for a domain with a record answers 200
\* with the verified flag and the address of that record and changes nothing.
C5_ValidRequestVerifies ==
    [][/\ \A r \in Slots :
            (/\ GateStep(r)
             /\ pc'[r] = "idle"
             /\ last'.nonce \notin usedNonces \ Expired(nonceTimestamps, now))
            => \A s \in Shapes :
                 (s.nonce = last'.nonce /\ ValidRequest(MkBody(s, now), now))
                 => ~PostGates(r, MkBody(s, now))
       /\ \A r \in Slots :
            (VerifyStep(r) /\ ValidRequest(body[r], now))
            => /\ last'.op = "POST" /\ last'.status = 200
               /\ last'.data.verified = TRUE
               /\ last'.data.address = body[r].expectedAddress
               /\ body[r].domain \in DOMAIN verificationStorage'
               /\ verificationStorage'[body[r].domain].verified = TRUE
               /\ verificationStorage'[body[r].domain].address = body[r].expectedAddress
       /\ \A d \in DOMAIN verificationStorage :
            (last'.op = "GET" /\ Get(d))
                   => /\ last'.status = 200
                      /\ last'.data.verified = TRUE
                      /\ last'.data.address = verificationStorage[d].address
                      /\ verificationStorage' = verificationStorage
      ]_vars

\* after a verification for domain a with the address of K1, GET has
\* answered 200 with verified = true and that address
C5_Witness ==
    /\ last.op = "GET"
    /\ last.status = 200
    /\ last.data.verified = TRUE
    /\ last.data.address = AddressOfKey("K1")
    /\ accepted # {}

\* the number of the gate that answers with the error
GateNumber(error) ==
    CASE error = "none"                   -> 0
      [] error = "MissingFields"          -> 1
      [] error = "InvalidDomain"          -> 2
      [] error = "ReplayDetected"         -> 3
      [] error = "InvalidAddressFormat"   -> 4
      [] error = "AddressMismatch"        -> 5
      [] error = "StaleOrFutureTimestamp" -> 6
      [] error = "MessageMismatch"        -> 7
      [] error = "EmptyMessage"           -> 7
      [] error = "FormatError"            -> 8
      [] error = "VerificationFailed"     -> 9
      [] error = "KeySubstitution"        -> 9
      [] error = "CryptoError"            -> 10
      [] error = "InvalidSignature"       -> 10

\* the gates that body b violates at clock value t with the nonces in used
\* consumed, each gate judged on its own
ViolatedGates(b, used, t) ==
    LET k == Clean(b.publicKey)
        g == Clean(b.signature)
    IN  { i \in 1..10 :
            \/ i = 1 /\ MissingFields(b)
            \/ i = 2 /\ ~sanitizeDomainName(b.domain).valid
            \/ i = 3 /\ b.nonce \in used
            \/ i = 4 /\ ~(isValidChiaAddress(b.expectedAddress)
                          /\ isValidChiaAddress(b.signingAddress))
            \/ i = 5 /\ b.signingAddress # b.expectedAddress
            \/ i = 6 /\ (t - b.timestamp > 120000 \/ t - b.timestamp < 0 - 30000)
            \/ i = 7 /\ b.message # <<"Verify ownership of domain ",
                                       sanitizeDomainName(b.domain).sanitized, " at ",
                                       b.timestamp, " with nonce ", b.nonce>>
            \/ i = 8 /\ ~(g.ishex /\ g.len = 192 /\ k.ishex /\ k.len = 96)
            \/ i = 9 /\ (k.val \notin Keys \/ AddressOfKey(k.val) # b.expectedAddress)
            \/ i = 10 /\ g.val # [signer |-> k.val, msg |-> b.message] }

Lowest(gates) == IF gates = {} THEN 0 ELSE CHOOSE i \in gates : \A j \in gates : i <= j

\* the error with which the handler answers body b, "none" for 200
Verdict(b, used, t) ==
    IF Gates(b, used, t) # "none" THEN Gates(b, used, t)
    ELSE verifyBLSSignature(b.message, b.signature, b.publicKey, b.expectedAddress).error

\* C6: in every state and for every body, however many gates it violates,
\* the handler answers with the error of the lowest-numbered violated gate,
\* and with 200 when no gate is violated.
C6_GateOrder ==
    \A s \in GateShapes :
        LET b == MkBody(s, now)
            used == usedNonces \ Expired(nonceTimestamps, now)
        IN  GateNumber(Verdict(b, used, now)) = Lowest(ViolatedGates(b, used, now))

\* a replay has been rejected, and there are bodies that violate the replay
\* gate together with at least three other gates
C6_Witness ==
    /\ last.op = "POST"
    /\ last.status = 400
    /\ last.error = "ReplayDetected"
    /\ \E s \in GateShapes :
          /\ 3 \in ViolatedGates(MkBody(s, now), usedNonces, now)
          /\ Cardinality(ViolatedGates(MkBody(s, now), usedNonces, now)) >= 4

\* C7: the registry holds only nonces of accepted requests and of requests
\* still suspended in verifyBLSSignature, and the step in which a POST is
\* answered with another status than 200 adds no nonce and leaves the
\* nonce of a request rejected after the await out of the registry.
C7_RejectionKeepsNoNonce ==
    /\ [](/\ usedNonces \subseteq accepted \cup InFlight
          /\ DOMAIN nonceTimestamps = usedNonces)
    /\ [][\A r \in Slots :
            (pc[r] # "idle" /\ pc'[r] = "idle" /\ last'.status # 200)
            => /\ usedNonces' \subseteq usedNonces
               /\ VerifyStep(r) => body[r].nonce \notin usedNonces'
       ]_vars

\* a stale request has been rejected and its nonce is not in the registry
C7_Witness ==
    /\ last.op = "POST"
    /\ last.status = 400
    /\ last.error = "StaleOrFutureTimestamp"
    /\ last.nonce \notin usedNonces

\* C8 as claimed: the request that retries the nonce of the rejection just
\* answered by a gate behind the replay check is not accepted.
C8_FailedNonceRejected ==
    [][\A r \in Slots :
          (VerifyStep(r) /\ LastFailedLate /\ last.nonce = body[r].nonce)
          => last'.status # 200
      ]_vars

\* C8 amended: the nonce of a request rejected by a gate behind the replay
\* check is not kept in the registry (only a later request may hold it), a
\* retry with that nonce is not rejected as a replay, and a valid retry is
\* answered 200.
C8_FailedNonceReusable ==
    /\ []((LastFailedLate /\ last.nonce \in usedNonces) => last.nonce \in InFlight)
    /\ [][\A r \in Slots :
            /\ (/\ GateStep(r)
                /\ LastFailedLate
                /\ StepNonce(r) = last.nonce
                /\ last.nonce \notin InFlight
                /\ pc'[r] = "idle")
               => last'.error # "ReplayDetected"
            /\ (/\ VerifyStep(r)
                /\ LastFailedLate
                /\ last.nonce = body[r].nonce
                /\ ValidRequest(body[r], now))
               => last'.status = 200
       ]_vars

\* a valid request carrying the nonce of the rejection just answered has
\* passed the replay check
C8_Witness ==
    \E r \in Slots :
        /\ pc[r] = "verify"
        /\ LastFailedLate
        /\ last.error = "InvalidSignature"
        /\ last.nonce = body[r].nonce
        /\ ValidRequest(body[r], now)

\* C9: a request that reaches the freshness gate with d = now - timestamp is
\* rejected with the timestamp error when d > 120000 or d < -30000 and
\* passes the gates when -30000 <= d <= 120000, both bounds included.
C9_FreshnessWindow ==
    [][\A r \in Slots : GateStep(r) => \A s \in FreshShapes :
          LET b == MkBody(s, now)
              d == now - b.timestamp
          IN  (/\ PostGates(r, b)
               /\ b.nonce \notin usedNonces \ Expired(nonceTimestamps, now))
              => /\ (d > 120000 \/ d < 0 - 30000)
                      => /\ pc'[r] = "idle"
                         /\ last'.status = 400
                         /\ last'.error = "StaleOrFutureTimestamp"
                 /\ (d <= 120000 /\ d >= 0 - 30000) => pc'[r] = "verify"
      ]_vars

\* a request whose timestamp is exactly 120000 ms old has been stored
C9_Witness ==
    /\ last.op = "POST"
    /\ last.status = 200
    /\ <<"a">> \in DOMAIN verificationStorage
    /\ verificationStorage[<<"a">>].verifiedAt
         - verificationStorage[<<"a">>].message[4] = 120000

\* C10: DELETE answers 200 exactly when a record exists under the sanitized
\* domain and then removes exactly that record; without a record it answers
\* 404 (400 when the domain does not sanitize) and changes neither the store
\* nor the file; after any DELETE no record is left under the domain, so a
\* second DELETE answers 404.  The request carries nothing but the domain.
C10_Revocation ==
    [][\A d \in Queries : (last'.op = "DELETE" /\ Delete(d, TRUE)) =>
          LET v == sanitizeDomainName(d)
              had == v.valid /\ v.sanitized \in DOMAIN verificationStorage
          IN  /\ (last'.status = 200) <=> had
              /\ had => verificationStorage' = MapDelete(verificationStorage, v.sanitized)
              /\ ~had => /\ verificationStorage' = verificationStorage
                         /\ file' = file
                         /\ last'.status = IF v.valid THEN 404 ELSE 400
              /\ v.sanitized \notin DOMAIN verificationStorage'
      ]_vars

\* a record was stored for domain a and a DELETE has removed it
C10_Witness ==
    /\ last.op = "DELETE"
    /\ last.status = 200
    /\ <<"a">> \notin DOMAIN verificationStorage
    /\ accepted # {}

\* C11: a GET changes neither the store, the file, the nonce registry nor
\* the SDK promise; given a domain, it answers 200 with the domain, address,
\* verified and verifiedAt of the record stored under exactly that domain,
\* and 404 with verified = false when there is none.
C11_GetIsPureLookup ==
    [][\A d \in Queries : (last'.op = "GET" /\ Get(d)) =>
          /\ verificationStorage' = verificationStorage
          /\ file' = file
          /\ usedNonces' = usedNonces
          /\ nonceTimestamps' = nonceTimestamps
          /\ initializationPromise' = initializationPromise
          /\ d # <<>> =>
                IF d \in DOMAIN verificationStorage
                THEN /\ last'.status = 200
                     /\ last'.data.domain = verificationStorage[d].domain
                     /\ last'.data.address = verificationStorage[d].address
                     /\ last'.data.verified = verificationStorage[d].verified
                     /\ last'.data.verifiedAt = verificationStorage[d].verifiedAt
                ELSE /\ last'.status = 404
                     /\ last'.data.verified = FALSE
      ]_vars

\* a GET has found a record while nonces are registered and a request is
\* suspended in verifyBLSSignature
C11_Witness ==
    /\ last.op = "GET"
    /\ last.status = 200
    /\ last.data.verified
    /\ usedNonces # {}
    /\ InFlight # {}


\* the file holds the store: a restart now would rebuild the same store
Saved == LoadVerifications(file) = verificationStorage

\* the step of a POST or DELETE that changes the store while its write of
\* the file fails
FailedWriteStep ==
    \/ \E r \in Slots : PostVerify(r, FALSE) /\ last'.op = "POST" /\ last'.status = 200
    \/ \E d \in StoreQueries : Delete(d, FALSE) /\ last'.op = "DELETE" /\ last'.status = 200

C14_UnavailableAnswered503 ==
    [][\A r \in Slots :
          (/\ pc[r] = "init"
           /\ initializationPromise = "rejected"
           /\ pc'[r] # "init"
           /\ ~Restart)
          => /\ last'.op = "POST"
             /\ last'.status = 503
             /\ verificationStorage' = verificationStorage
             /\ file' = file
             /\ usedNonces' = usedNonces
             /\ nonceTimestamps' = nonceTimestamps
      ]_vars

\* a POST has been answered 503 by a process that holds a record
C14_Witness ==
    /\ last.op = "POST"
    /\ last.status = 503
    /\ initializationPromise = "rejected"
    /\ verificationStorage # EmptyMap

\* C15 as claimed: while the SDK is not loaded, no step of a request
\* changes the store.
C15_NoMutationWithoutCrypto ==
    [][(initializationPromise # "fulfilled" /\ ~Restart)
         => verificationStorage' = verificationStorage]_vars

\* C15 amended: while the SDK is not loaded, no POST creates or replaces a
\* record: the only step of a request that changes the store is a DELETE
\* answered 200, which removes the record of its sanitized domain; and a
\* DELETE for a domain with a record removes it whatever the state of the
\* SDK promise.
C15_OnlyDeleteWithoutCrypto ==
    /\ [][(initializationPromise # "fulfilled" /\ ~Restart
            /\ verificationStorage' # verificationStorage)
           => /\ last'.op = "DELETE"
              /\ last'.status = 200
              /\ \E d \in StoreQueries :
                    /\ sanitizeDomainName(d).valid
                    /\ verificationStorage' =
                          MapDelete(verificationStorage, sanitizeDomainName(d).sanitized)
       ]_vars
    /\ [][\A d \in StoreQueries :
            (/\ last'.op = "DELETE"
             /\ Delete(d, TRUE) \/ Delete(d, FALSE)
             /\ sanitizeDomainName(d).valid
             /\ sanitizeDomainName(d).sanitized \in DOMAIN verificationStorage)
            => /\ last'.status = 200
               /\ sanitizeDomainName(d).sanitized \notin DOMAIN verificationStorage'
       ]_vars

\* a DELETE has removed a record in a process whose SDK is not loaded
C15_Witness ==
    /\ last.op = "DELETE"
    /\ last.status = 200
    /\ initializationPromise \in {"null", "rejected"}

\* C16: in one process the import of the SDK is started at most once,
\* exactly when the promise is created; a settled promise never changes;
\* and every request waiting on it resumes with its outcome: 503 when it
\* is rejected, the gates when it is fulfilled.
C16_InitializedOnce ==
    /\ [](/\ sdkLoads <= 1
          /\ sdkLoads = 0 <=> initializationPromise = "null")
    /\ [][(initializationPromise \in {"fulfilled", "rejected"})
            => (initializationPromise' = initializationPromise)]_vars
    /\ [][\A r \in Slots : (pc[r] = "init" /\ pc'[r] # "init") =>
            \/ /\ initializationPromise = "rejected"
               /\ last'.status = 503
            \/ /\ initializationPromise = "fulfilled"
               /\ pc'[r] = "idle" => last'.status = 400
       ]_vars

\* two requests called initializeChiaSDK while the import was pending; it
\* failed, one of them has been answered 503 and the other still waits
C16_Witness ==
    /\ initializationPromise = "rejected"
    /\ sdkLoads = 1
    /\ last.op = "POST"
    /\ last.status = 503
    /\ \E r \in Slots : pc[r] = "init"

\* the records stored under domain d: none or one
RecordsOf(store, d) == IF d \in DOMAIN store THEN {store[d]} ELSE {}

\* C17: the store and the file hold at most one record per domain.  The
\* record of a domain changes only in the step that answers 200 to a POST
\* whose sanitized domain it is, which leaves exactly the record made of
\* that request's fields, or in the step that answers 200 to a DELETE for
\* it, which leaves none; every other step of any request, concurrent or
\* not, leaves it as it is.
C17_RecordChangesOnlyByOwnRequest ==
    /\ [](\A e1, e2 \in file : e1[1] = e2[1] => e1 = e2)
    /\ [][\A r \in Slots : (VerifyStep(r) /\ ~Restart /\ last'.status = 200) =>
            /\ StripInvalid(body[r].domain) \in DOMAIN verificationStorage'
            /\ verificationStorage'[StripInvalid(body[r].domain)] =
                  [domain     |-> StripInvalid(body[r].domain),
                   address    |-> body[r].expectedAddress,
                   verified   |-> TRUE,
                   verifiedAt |-> now,
                   signature  |-> body[r].signature,
                   publicKey  |-> body[r].publicKey,
                   message    |-> body[r].message,
                   nonce      |-> body[r].nonce]
       ]_vars
    /\ [][\A d \in Domains :
            (~Restart /\ RecordsOf(verificationStorage', d) # RecordsOf(verificationStorage, d))
            => \/ /\ last'.op = "POST"
                  /\ last'.status = 200
                  /\ \E r \in Slots : VerifyStep(r) /\ StripInvalid(body[r].domain) = d
               \/ /\ last'.op = "DELETE"
                  /\ last'.status = 200
                  /\ d \notin DOMAIN verificationStorage'
                  /\ \E q \in StoreQueries :
                        /\ StripInvalid(q) = d
                        /\ Delete(q, TRUE) \/ Delete(q, FALSE)
       ]_vars

\* both domains have a record, the one of domain a has been replaced by a
\* second verification while another request is suspended
C17_Witness ==
    /\ DOMAIN verificationStorage = Domains
    /\ last.op = "POST"
    /\ last.status = 200
    /\ verificationStorage[<<"a">>].nonce = "n2"
    /\ verificationStorage[<<"b">>].nonce = "n1"
    /\ InFlight # {}

\* C18: a request is past the gates only with the message built from its
\* sanitized domain, its timestamp and its nonce; the record written for it
\* carries that message, and every record in the store carries the message
\* built from its key, a timestamp and its nonce.
C18_MessageBinding ==
    /\ [](\A r \in Slots : pc[r] = "verify" =>
            body[r].message = <<"Verify ownership of domain ", StripInvalid(body[r].domain),
                                " at ", body[r].timestamp,
                                " with nonce ", body[r].nonce>>)
    /\ [](\A d \in DOMAIN verificationStorage :
            /\ Len(verificationStorage[d].message) = 6
            /\ verificationStorage[d].message =
                  <<"Verify ownership of domain ", d,
                    " at ", verificationStorage[d].message[4],
                    " with nonce ", verificationStorage[d].nonce>>)
    /\ [][\A r \in Slots : (VerifyStep(r) /\ last'.status = 200) =>
            verificationStorage'[StripInvalid(body[r].domain)].message =
               <<"Verify ownership of domain ", StripInvalid(body[r].domain),
                 " at ", body[r].timestamp, " with nonce ", body[r].nonce>>
       ]_vars

\* a request that passed the earlier gates has been rejected for its message
C18_Witness ==
    /\ last.op = "POST"
    /\ last.status = 400
    /\ last.error = "MessageMismatch"
    /\ last.nonce = "n1"
    /\ usedNonces = {}

\* the string is exactly n hexadecimal characters
ExactHex(h, n) == ~h.p0x /\ h.ishex /\ h.len = n

\* the string is n hexadecimal characters behind at most one leading 0x
PrefixedHex(h, n) == h.ishex /\ h.len = n

\* C19 as claimed: a request that reaches verifyBLSSignature with a public
\* key that is not exactly 96 hexadecimal characters, or a signature that
\* is not exactly 192, is rejected with the format error and not stored.
C19_ExactHexOnly ==
    [][\A r \in Slots :
          (/\ VerifyStep(r)
           /\ ~ExactHex(body[r].publicKey, 96) \/ ~ExactHex(body[r].signature, 192))
          => /\ last'.status = 400
             /\ last'.error = "FormatError"
             /\ verificationStorage' = verificationStorage
      ]_vars

\* C19 amended: after one leading 0x has been removed from each, a request
\* that reaches verifyBLSSignature with a public key that is not exactly 96
\* hexadecimal characters, or a signature that is not exactly 192, is
\* rejected with the format error and changes neither store nor file; the
\* public key and the signature of every stored record have that format.
C19_HexBehindOptionalPrefix ==
    /\ [](\A d \in DOMAIN verificationStorage :
            /\ PrefixedHex(verificationStorage[d].publicKey, 96)
            /\ PrefixedHex(verificationStorage[d].signature, 192))
    /\ [][\A r \in Slots :
            (/\ VerifyStep(r)
             /\ ~PrefixedHex(body[r].publicKey, 96) \/ ~PrefixedHex(body[r].signature, 192))
            => /\ last'.status = 400
               /\ last'.error = "FormatError"
               /\ verificationStorage' = verificationStorage
               /\ file' = file
       ]_vars

\* a request that passed the gates has been rejected for the format of its
\* key or signature
C19_Witness ==
    /\ last.op = "POST"
    /\ last.status = 400
    /\ last.error = "FormatError"
    /\ last.nonce \notin usedNonces

\* C20: every key of the store consists of 1 to 100 characters of
\* [a-zA-Z0-9_-] and is the domain field of its record; a request is past
\* the gates only if its domain, stripped of all other characters, has 1 to
\* 100 characters, and its record is written under the stripped domain; a
\* request rejected by the gates is answered 400 and stores nothing.
C20_KeysAreSanitized ==
    /\ [](\A d \in DOMAIN verificationStorage :
            /\ Len(d) >= 1
            /\ Len(d) <= 100
            /\ \A i \in 1..Len(d) : d[i] \in ValidChars
            /\ verificationStorage[d].domain = d)
    /\ [](\A r \in Slots : pc[r] = "verify" =>
            /\ Len(StripInvalid(body[r].domain)) >= 1
            /\ Len(StripInvalid(body[r].domain)) <= 100)
    /\ [][\A r \in Slots :
            /\ (VerifyStep(r) /\ last'.status = 200)
               => DOMAIN verificationStorage' =
                    DOMAIN verificationStorage \cup {StripInvalid(body[r].domain)}
            /\ (GateStep(r) /\ pc'[r] = "idle")
               => /\ last'.status = 400
                  /\ verificationStorage' = verificationStorage
                  /\ file' = file
       ]_vars

\* a request for the domain "a." has been accepted and its record is
\* stored under "a"
C20_Witness ==
    /\ last.op = "POST"
    /\ last.status = 200
    /\ last.data.domain = <<"a", ".">>
    /\ DOMAIN verificationStorage = {<<"a">>}

\* C21: the step of a POST that runs cleanupExpiredNonces at clock value now
\* leaves in the registry no nonce consumed more than 300000 ms before now,
\* and keeps every nonce consumed at most 300000 ms before now with its
\* consumption time; set and timestamp map are swept alike.
C21_SweepEvictsOnlyExpired ==
    [][\A r \in Slots : GateStep(r) =>
          /\ \A n \in usedNonces' : now - nonceTimestamps'[n] <= 300000
          /\ \A n \in usedNonces :
                now - nonceTimestamps[n] <= 300000
                => /\ n \in usedNonces'
                   /\ nonceTimestamps'[n] = nonceTimestamps[n]
          /\ \A n \in usedNonces :
                (now - nonceTimestamps[n] > 300000 /\ n \in usedNonces')
                => /\ pc'[r] = "verify"
                   /\ body'[r].nonce = n
                   /\ nonceTimestamps'[n] = now
          /\ DOMAIN nonceTimestamps' = usedNonces'
      ]_vars

\* a sweep has run exactly 300000 ms after a nonce was consumed and has
\* kept it: the request that carried it again was rejected as a replay
C21_Witness ==
    /\ last.op = "POST"
    /\ last.status = 400
    /\ last.error = "ReplayDetected"
    /\ last.nonce \in usedNonces
    /\ now - nonceTimestamps[last.nonce] = 300000

\* the links of a sequence
LinkSet(links) == { links[i] : i \in 1..Len(links) }

\* C22: a GET of api/links/u answers with a list that contains every link
\* a POST of api/links/create has stored for u with 201 in this process.
C22_CreatedLinkDisplayed ==
    [][\A u \in LinkUsers :
          (GetLinks(u) /\ linkLast'.op = "GET")
          => /\ linkLast'.status = 200
             /\ LinkSet(LinksOf(linksStorage, u)) \subseteq LinkSet(linkLast'.links)
      ]_linkVars

\* the signature of the body is one by the key of its address over its
\* message
ValidLinkSignature(b) ==
    \E k \in Keys :
        /\ AddressOfKey(k) = b.address
        /\ b.signature.val = [signer |-> k, msg |-> b.message]

\* C23: a create request stores a link only if its signature is a valid
\* signature of its message by the key of its address; a request whose
\* signature does not verify is answered 401 and stores nothing.
C23_OnlySignedLinksStored ==
    [][\A r \in DOMAIN linkPc :
          /\ (LinkUser(r) /\ linksStorage' # linksStorage)
             => ValidLinkSignature(linkBody[r])
          /\ (LinkVerified(r) /\ ~ValidLinkSignature(linkBody[r]))
             => /\ linkLast'.op = "POST"
                /\ linkLast'.status = 401
                /\ linkPc'[r] = "idle"
      ]_linkVars

RECURSIVE FirstTimestamp(_)
\* the first number that follows "at " in the message, -1 when there is none
FirstTimestamp(m) ==
    IF Len(m) < 2 THEN 0 - 1
    ELSE IF m[1].kind = "word" /\ m[1].text \in {"at", "cat"} /\ m[2].kind = "num"
    THEN m[2].num
    ELSE FirstTimestamp(Tail(m))

\* C24: a create request is suspended only with a message that holds a
\* number behind "at ", and a request answered without being suspended is
\* answered 400, so one without such a number is answered 400; a suspended
\* request whose timestamp T, the first number behind "at ", has
\* d = now - T > 300000 or d < -60000 is answered 401; neither stores a
\* link or registers an address; and a request with -60000 <= d <= 300000
\* is not rejected for its timestamp.
C24_LinkTimestampWindow ==
    /\ [](\A r \in DOMAIN linkPc :
            linkPc[r] # "idle" => FirstTimestamp(linkBody[r].message) # 0 - 1)
    /\ [][(linkPc' = linkPc /\ linkLast'.op = "POST")
            => /\ linkLast'.status = 400
               /\ linksStorage' = linksStorage
               /\ userAddresses' = userAddresses
       ]_linkVars
    /\ [][\A r \in DOMAIN linkPc : LinkVerified(r) =>
            LET d == now - FirstTimestamp(linkBody[r].message) IN
            /\ (d > 300000 \/ d < 0 - 60000)
                  => /\ linkLast'.op = "POST"
                     /\ linkLast'.status = 401
                     /\ linkPc'[r] = "idle"
                     /\ linksStorage' = linksStorage
                     /\ userAddresses' = userAddresses
            /\ (d <= 300000 /\ d >= 0 - 60000 /\ linkPc'[r] = "idle")
                  => linkLast'.error \notin {"TimestampTooOld", "TimestampInFuture"}
       ]_linkVars

\* a request whose timestamp is 300001 ms old has been answered 401 while a
\* link of a request in the window is stored
C24_Witness ==
    /\ linkLast.op = "POST"
    /\ linkLast.status = 401
    /\ linkLast.error = "TimestampTooOld"
    /\ \E u \in DOMAIN linksStorage : linksStorage[u] # <<>>

\* C25: the address registered for a username never changes and no
\* registration is dropped while the process runs; a link is stored only
\* by a request that carries the address registered for its username, and
\* the step appends that one link to the list of that username alone; a
\* request that reaches the ownership check with another address than the
\* registered one is answered 403 and changes neither links nor addresses;
\* every username that has links has a registered address.
C25_OwnershipBinding ==
    /\ [](DOMAIN linksStorage \subseteq DOMAIN userAddresses)
    /\ [][~LinkRestart =>
            \A u \in DOMAIN userAddresses :
               /\ u \in DOMAIN userAddresses'
               /\ userAddresses'[u] = userAddresses[u]
       ]_linkVars
    /\ [][\A r \in DOMAIN linkPc : LinkUser(r) =>
            LET b == linkBody[r] IN
            /\ (b.username \in DOMAIN userAddresses /\ userAddresses[b.username] # b.address)
                  => /\ linkLast'.op = "POST"
                     /\ linkLast'.status = 403
                     /\ linksStorage' = linksStorage
                     /\ userAddresses' = userAddresses
            /\ linksStorage' # linksStorage
                  => /\ b.username \in DOMAIN userAddresses'
                     /\ userAddresses'[b.username] = b.address
                     /\ linkLast'.status = 201
                     /\ Len(linksStorage'[b.username])
                           = Len(LinksOf(linksStorage, b.username)) + 1
                     /\ SubSeq(linksStorage'[b.username], 1,
                               Len(LinksOf(linksStorage, b.username)))
                           = LinksOf(linksStorage, b.username)
                     /\ \A u \in DOMAIN linksStorage :
                           u # b.username => linksStorage'[u] = linksStorage[u]
       ]_linkVars

\* alice has a link and a registered address, and a request for alice that
\* carried another address has been answered 403
C25_Witness ==
    /\ linkLast.op = "POST"
    /\ linkLast.status = 403
    /\ "alice" \in DOMAIN linksStorage
    /\ linksStorage["alice"] # <<>>
    /\ "alice" \in DOMAIN userAddresses

\* C26: the same verification request (same domain, timestamp, nonce,
\* message and signature as one answered 200 before) is never answered 200
\* again, whenever it is sent again: while its nonce is registered, after the
\* sweep has evicted the nonce, or after the process has been restarted.
C26_NeverAcceptedTwice ==
    [][\A r \in Slots :
         (VerifyStep(r) /\ last'.op = "POST" /\ last'.status = 200)
         => body[r] \notin wire
    ]_allVars

\* the step in which request r is rejected by the replay check
ReplayRejection(r) ==
    /\ GateStep(r)
    /\ pc'[r] = "idle"
    /\ last'.op = "POST"
    /\ last'.status = 400
    /\ last'.error = "ReplayDetected"

\* C27 as stated: a POST is rejected with the replay error only if an
\* earlier request with the same nonce was answered 200 and the nonce has
\* not yet expired; a request in flight, or one that ends up rejected, never
\* causes the rejection.
C27_ReplayOnlyAfterAccepted ==
    [][\A r \in Slots :
         ReplayRejection(r)
         => /\ last'.nonce \in accepted
            /\ last'.nonce \notin Expired(nonceTimestamps, now)
    ]_vars

\* C27, amended: a POST is rejected with the replay error only if, at its
\* replay check, the nonce is unexpired and either an earlier request with it
\* was answered 200 or a request with it is suspended in verifyBLSSignature
\* (that request may still end up rejected); a request whose rejection is
\* complete has left nothing behind and never causes a replay rejection.
C27_ReplayOnlyWhileRegistered ==
    /\ [](usedNonces \subseteq accepted \cup InFlight)
    /\ [][\A r \in Slots :
            ReplayRejection(r)
            => /\ last'.nonce \notin Expired(nonceTimestamps, now)
               /\ \/ last'.nonce \in accepted
                  \/ last'.nonce \in InFlight
       ]_vars

\* a POST has been rejected as a replay of a request that is in flight, was
\* never accepted and is about to be rejected itself
C27_Witness ==
    \E r \in Slots :
        /\ pc[r] = "verify"
        /\ ~verifyBLSSignature(body[r].message, body[r].signature,
                               body[r].publicKey, body[r].expectedAddress).valid
        /\ last.op = "POST"
        /\ last.error = "ReplayDetected"
        /\ last.nonce = body[r].nonce
        /\ last.nonce \notin accepted

\* the record POST has written for the domain string s is in the store
StoredFor(s) ==
    /\ sanitizeDomainName(s).valid
    /\ sanitizeDomainName(s).sanitized \in DOMAIN verificationStorage
    /\ \E b \in wire :
         /\ b.domain = s
         /\ verificationStorage[sanitizeDomainName(s).sanitized].nonce = b.nonce
         /\ verificationStorage[sanitizeDomainName(s).sanitized].message = b.message

\* C28: POST, GET and DELETE resolve a domain string to the same store key:
\* the domain reported in a 200 response of POST is the key and the domain of
\* the stored record; while the record a POST with domain s has written is in
\* the store, a GET with s answers 200 with that record and a DELETE with s
\* removes exactly that record.
C28_SameStoreKey ==
    /\ []((last.op = "POST" /\ last.status = 200)
            => /\ last.data.domain \in DOMAIN verificationStorage
               /\ verificationStorage[last.data.domain].domain = last.data.domain)
    /\ [][\A s \in KeyDomains :
            (StoredFor(s) /\ last'.op = "GET" /\ Get(s))
            => /\ last'.status = 200
               /\ last'.data.domain = verificationStorage[sanitizeDomainName(s).sanitized].domain
               /\ last'.data.address = verificationStorage[sanitizeDomainName(s).sanitized].address
               /\ last'.data.verifiedAt = verificationStorage[sanitizeDomainName(s).sanitized].verifiedAt
       ]_allVars
    /\ [][\A s \in KeyDomains :
            (StoredFor(s) /\ last'.op = "DELETE" /\ Delete(s, TRUE))
            => /\ last'.status = 200
               /\ verificationStorage' =
                     MapDelete(verificationStorage, sanitizeDomainName(s).sanitized)
       ]_allVars

\* the step in which the POST of slot r is answered
PostAnswered(r) == pc[r] # "idle" /\ pc'[r] = "idle" /\ last'.op = "POST"

\* C29: within one process the outcome of the crypto initialization is
\* permanent.  Once initializeChiaSDK has failed, the promise stays rejected,
\* no call starts another import, no request gets to the gates and every
\* POST answered from then on is answered 503; once it has succeeded, the
\* promise stays fulfilled, no import is started and no POST is answered 503.
\* Only a restart of the process ends either condition.
C29_InitOutcomeIsPermanent ==
    /\ [](initializationPromise = "rejected" => \A r \in Slots : pc[r] # "verify")
    /\ [][~Restart =>
            /\ initializationPromise = "rejected" =>
                  /\ initializationPromise' = "rejected"
                  /\ sdkLoads' = sdkLoads
                  /\ usedNonces' = usedNonces
                  /\ \A r \in Slots :
                        /\ pc'[r] # "verify"
                        /\ PostAnswered(r) => last'.status = 503
            /\ initializationPromise = "fulfilled" =>
                  /\ initializationPromise' = "fulfilled"
                  /\ sdkLoads' = sdkLoads
                  /\ \A r \in Slots : PostAnswered(r) => last'.status # 503
       ]_vars

\* the one import of this process has failed, a POST has been answered 503
\* and a further POST is waiting on the same rejected promise
C29_Witness ==
    /\ initializationPromise = "rejected"
    /\ sdkLoads = 1
    /\ last.op = "POST"
    /\ last.status = 503
    /\ \E r \in Slots : pc[r] = "init"

\* the step in which the mount-time check receives a definitive answer
CheckAnswered ==
    /\ checkPc = "responded"
    /\ checkPc' = "done"
    /\ checkResponse.status \in {200, 404}

\* C30: once the mount-time status check has received 200 or 404, the
\* isVerified flag and the localStorage flag of the component equal the
\* verification status the server has answered, so that the button starts a
\* new verification whenever the server has no record.
C30_FlagsFollowServer ==
    [][CheckAnswered
       => /\ isVerified' = checkResponse.verified
          /\ (localStorage' = "true") = checkResponse.verified
    ]_allVars

====
